---- MODULE Spec2Model ----
(***************************************************************************)
(* A model of the configuration parse/merge/diff engine of ksconf           *)
(* (src/ksconf.py)                                                         *)
(*                                                                         *)
(* Python values are modelled as follows.                                  *)
(*   str        a sequence of one-character strings ("ab" is <<"a","b">>)  *)
(*   Token      a record [token |-> TRUE, id |-> n]; object identity is id *)
(*   stanza key a Token, or a str wrapped as [token |-> FALSE, name |-> s] *)
(*              (as is every str where it is sorted)                       *)
(*   tags       the strs that only name a case are TLA+ strings            *)
(*   dict       a function; {} is the empty function << >>                 *)
(*   None / x   << >> / <<x>> where a field may hold None                  *)
(* Dicts that the code mutates in place live in a memory `mem`: a document *)
(* object maps stanza keys to addresses of stanza objects, so that two     *)
(* documents sharing a stanza object is a state the model can express.     *)
(***************************************************************************)
EXTENDS Integers, Sequences, FiniteSets, TLC

VARIABLES
    mem,          \* [docs, stanzas]: the document and the stanza dict objects
    dicts,        \* merge_conf_dicts(*dicts): addresses of the argument documents
    args,         \* the argument documents' values when the call was made
    result,       \* address of the document merge_conf_dicts returned (0: none yet)
    cfg1, cfg2,   \* compare_cfgs(a, b, ...): the two documents
    allow_level0, \* compare_cfgs(..., allow_level0)
    delta,        \* the list of DiffOp compare_cfgs returned
    stream,       \* parse_conf(stream, ...): the lines that iterating it gives
    parse_args,   \* parse_conf(..., **parse_args)
    parsed,       \* what parse_conf did: [raised, sections]
    sort,         \* write_conf(..., sort)
    written,      \* the text write_conf wrote
    reparsed,     \* what parse_conf did on the written text
    configs,      \* merge_conf_files(..., configs, ...): the streams
    merged_cfg,   \* merged_cfg of merge_conf_files
    fs,           \* the files on disk: path -> [data, mtime]
    fs0,          \* the files on disk when the call was made
    clock,        \* the time of the last change of a file
    filename,     \* smart_write_conf(filename, ...)
    smart_conf,   \* smart_write_conf(..., conf)
    temp,         \* the StringIO of smart_write_conf
    smart_rc,     \* what smart_write_conf returned (None: nothing yet)
    syscalls,     \* the calls of the program that change the disk
    promote_args, \* do_promote(args): source, target, mode, keep, keep_empty, force
    fp_source,    \* fp_source of do_promote
    fp_target,    \* fp_target of do_promote
    cfg_src,      \* cfg_src of do_promote
    cfg_tgt,      \* cfg_tgt of do_promote
    diff,         \* diff of _do_promote_interactive
    op_i,         \* the place in diff of the op the loop is at
    out_src,      \* out_src of _do_promote_interactive
    out_cfg,      \* out_cfg of _do_promote_interactive
    accepted,     \* the ops of diff answered with yes
    cfg_final_src, \* cfg_final_src of do_promote
    cfg_final_tgt, \* cfg_final_tgt of do_promote
    exit_code,    \* what do_promote returned (None: nothing, or nothing yet)
    edits,        \* the changes another process made to the files: [path, at]
    minimize_args, \* do_minimize(args): conf, target, output, preserve_key
    default_cfg,  \* default_cfg of do_minimize
    local_cfg,    \* local_cfg of do_minimize
    minz_cfg,     \* minz_cfg of do_minimize
    diffs,        \* diffs of do_minimize
    diffs_i,      \* the place in diffs of the op the loop is at
    pc            \* position of the caller: "start", ..., "returned"

diff_vars == <<cfg1, cfg2, allow_level0, delta>>
merge_vars == <<mem, dicts, args, result>>
parse_vars == <<stream, parse_args, parsed, sort, written, reparsed>>
files_vars == <<configs, merged_cfg>>
disk_vars == <<fs, fs0, clock, filename, smart_conf, temp, smart_rc, syscalls>>
promote_vars ==
    <<promote_args, fp_source, fp_target, cfg_src, cfg_tgt, diff, op_i, out_src,
      out_cfg, accepted, cfg_final_src, cfg_final_tgt, exit_code, edits>>
minimize_vars == <<minimize_args, default_cfg, local_cfg, minz_cfg, diffs, diffs_i>>
cmd_vars == <<disk_vars, promote_vars, minimize_vars>>

vars == <<mem, dicts, args, result, cfg1, cfg2, allow_level0, delta,
          stream, parse_args, parsed, sort, written, reparsed,
          configs, merged_cfg,
          fs, fs0, clock, filename, smart_conf, temp, smart_rc, syscalls,
          promote_args, fp_source, fp_target, cfg_src, cfg_tgt, diff, op_i, out_src,
          out_cfg, accepted, cfg_final_src, cfg_final_tgt, exit_code, edits,
          minimize_args, default_cfg, local_cfg, minz_cfg, diffs, diffs_i, pc>>

\* the longest list of documents given to merge_conf_dicts
MaxLayers == 3

----------------------------------------------------------------------------
\* Strings

\* ord(c) of the characters in use
ord ==
    ("1" :> 49) @@ ("2" :> 50) @@ ("<" :> 60) @@ (">" :> 62) @@ ("D" :> 68) @@
    ("O" :> 79) @@ ("P" :> 80) @@ ("R" :> 82) @@ ("_" :> 95) @@ ("a" :> 97) @@
    ("b" :> 98) @@ ("n" :> 110) @@ ("s" :> 115) @@ ("t" :> 116) @@ ("z" :> 122) @@
    ("\n" :> 10) @@ ("\r" :> 13) @@ (" " :> 32) @@ ("#" :> 35) @@ ("=" :> 61) @@
    ("K" :> 75) @@ ("[" :> 91) @@ ("\\" :> 92) @@ ("]" :> 93) @@ ("c" :> 99) @@
    ("j" :> 106) @@ ("k" :> 107) @@ ("v" :> 118) @@ ("w" :> 119) @@
    ("x" :> 120) @@ ("y" :> 121)

\* x < y on two str: byte-wise lexicographic
str_lt(x, y) ==
    LET n == IF Len(x) < Len(y) THEN Len(x) ELSE Len(y)
        differ == {i \in 1..n : x[i] # y[i]}
    IN  IF differ = {}
        THEN Len(x) < Len(y)
        ELSE LET i == CHOOSE j \in differ : \A k \in differ : j <= k
             IN  ord[x[i]] < ord[y[i]]

\* sub in s, on two str
StrContains(sub, s) ==
    \E i \in 0..(Len(s) - Len(sub)) : SubSeq(s, i + 1, i + Len(sub)) = sub

----------------------------------------------------------------------------
\* Stanza keys

GLOBAL_STANZA == [token |-> TRUE, id |-> 0]

Name(s) == [token |-> FALSE, name |-> s]

\* Token without __deepcopy__: copy.deepcopy builds another Token object
Token__deepcopy__default(self) == [token |-> TRUE, id |-> self.id + 1]

\* Token.__deepcopy__: the same object
Token__deepcopy__(self) == self

STANZA_MAGIC_KEY == <<"_", "s", "t", "a", "n", "z", "a">>
STANZA_OP_DROP == <<"<", "<", "D", "R", "O", "P", ">", ">">>

----------------------------------------------------------------------------
\* dict operations

\* del d[k]
DictDel(d, k) == [x \in DOMAIN d \ {k} |-> d[x]]

\* d[k] = v
DictSet(d, k, v) == [x \in DOMAIN d \cup {k} |-> IF x = k THEN v ELSE d[x]]

\* d.update(e) that keeps the values d already has
DictUpdate_keep(d, e) ==
    [x \in DOMAIN d \cup DOMAIN e |-> IF x \in DOMAIN d THEN d[x] ELSE e[x]]

\* d.update(e)
DictUpdate(d, e) == [x \in DOMAIN d \cup DOMAIN e |-> IF x \in DOMAIN e THEN e[x] ELSE d[x]]

----------------------------------------------------------------------------
\* Memory

EmptyMem == [docs |-> << >>, stanzas |-> << >>]

\* the value of the document at address d: stanza key -> (key -> value)
Val(m, d) == [s \in DOMAIN m.docs[d] |-> m.stanzas[m.docs[d][s]]]

\* the addresses of the stanza objects of the document at address d
StanzaAddrs(m, d) == {m.docs[d][s] : s \in DOMAIN m.docs[d]}

\* a new document object with one new stanza object per stanza of the value v
NewDoc(m, v) ==
    LET names == DOMAIN v
        n == Len(m.stanzas)
        pick == CHOOSE f \in [names -> 1..Cardinality(names)] :
                    \A s, t \in names : s # t => f[s] # f[t]
        objs == [i \in 1..Cardinality(names) |-> v[CHOOSE s \in names : pick[s] = i]]
    IN  [mem |-> [docs |-> Append(m.docs, [s \in names |-> n + pick[s]]),
                  stanzas |-> m.stanzas \o objs],
         ref |-> Len(m.docs) + 1]

RECURSIVE NewDocs(_, _, _, _)
\* the documents of the list vs after those at refs: each with objects of its
\* own, or (share) one object for the documents of the list that are equal
NewDocs(m, refs, vs, share) ==
    IF vs = << >>
    THEN [mem |-> m, refs |-> refs]
    ELSE LET same == {r \in 1..Len(m.docs) : Val(m, r) = Head(vs)}
         IN  IF share /\ same # {}
             THEN NewDocs(m, Append(refs, CHOOSE r \in same : TRUE), Tail(vs), share)
             ELSE LET d == NewDoc(m, Head(vs))
                  IN  NewDocs(d.mem, Append(refs, d.ref), Tail(vs), share)

----------------------------------------------------------------------------
\* Merging logic

\* deepcopy(k) of a dict key: a str is immutable, a Token copies itself
deepcopy_key(k) == IF k.token THEN Token__deepcopy__(k) ELSE k

\* dict(d) in place of deepcopy(d): a new document object, the same stanza objects
deepcopy_shallow(m, d) ==
    [mem |-> [m EXCEPT !.docs = Append(@, m.docs[d])], ref |-> Len(m.docs) + 1]

\* deepcopy(d) of the document at address d: a new document object and a new
\* stanza object for every stanza object of d (the memo keeps two names of one
\* stanza object one object in the copy)
deepcopy(m, d) ==
    LET old == m.docs[d]
        addrs == StanzaAddrs(m, d)
        n == Len(m.stanzas)
        Rank(x) == Cardinality({y \in addrs : y <= x})
        copies == [i \in 1..Cardinality(addrs) |->
                      m.stanzas[CHOOSE x \in addrs : Rank(x) = i]]
        copy == [k \in {deepcopy_key(s) : s \in DOMAIN old} |->
                    n + Rank(old[CHOOSE s \in DOMAIN old : deepcopy_key(s) = k])]
    IN  [mem |-> [docs |-> Append(m.docs, copy), stanzas |-> m.stanzas \o copies],
         ref |-> Len(m.docs) + 1]

\* STANZA_MAGIC_KEY in items, and STANZA_OP_DROP in its value
stanza_drops(items) ==
    /\ STANZA_MAGIC_KEY \in DOMAIN items
    /\ StrContains(STANZA_OP_DROP, items[STANZA_MAGIC_KEY])

\* the body of the loop without its `continue`: the dropped section is then
\* not in base, and the new layer's stanza is put there
merge_section_fallthrough(m, base, section, items) ==
    IF stanza_drops(m.stanzas[items]) \/ section \notin DOMAIN m.docs[base]
    THEN [m EXCEPT !.docs[base] = DictSet(@, section, items)]
    ELSE [m EXCEPT !.stanzas[m.docs[base][section]] = DictUpdate(@, m.stanzas[items])]

\* the body of the loop when any value of STANZA_MAGIC_KEY drops the stanza
merge_section_anyvalue(m, base, section, items) ==
    IF STANZA_MAGIC_KEY \in DOMAIN m.stanzas[items]
    THEN IF section \in DOMAIN m.docs[base]
         THEN [m EXCEPT !.docs[base] = DictDel(@, section)]
         ELSE m
    ELSE IF section \in DOMAIN m.docs[base]
         THEN [m EXCEPT !.stanzas[m.docs[base][section]] = DictUpdate(@, m.stanzas[items])]
         ELSE [m EXCEPT !.docs[base] = DictSet(@, section, items)]

\* the body of the loop when a drop only skips the section: base keeps it
merge_section_keep_dropped(m, base, section, items) ==
    IF stanza_drops(m.stanzas[items])
    THEN m
    ELSE IF section \in DOMAIN m.docs[base]
         THEN [m EXCEPT !.stanzas[m.docs[base][section]] = DictUpdate(@, m.stanzas[items])]
         ELSE [m EXCEPT !.docs[base] = DictSet(@, section, items)]

\* the body of the loop of _merge_conf_dicts for one (section, items) of new_layer
merge_section(m, base, section, items) ==
    IF stanza_drops(m.stanzas[items])
    THEN IF section \in DOMAIN m.docs[base]
         THEN [m EXCEPT !.docs[base] = DictDel(@, section)]
         ELSE m
    ELSE IF section \in DOMAIN m.docs[base]
         THEN [m EXCEPT !.stanzas[m.docs[base][section]] = DictUpdate(@, m.stanzas[items])]
         ELSE [m EXCEPT !.docs[base] = DictSet(@, section, items)]

RECURSIVE merge_sections(_, _, _, _)
\* for (section, items) in new_layer.iteritems(), over the sections in todo
merge_sections(m, base, layer, todo) ==
    IF todo = {}
    THEN m
    ELSE LET section == CHOOSE s \in todo : TRUE
         IN  merge_sections(merge_section(m, base, section, layer[section]),
                            base, layer, todo \ {section})

\* _merge_conf_dicts(base, new_layer): base is updated in place
_merge_conf_dicts(m, base, new_layer) ==
    merge_sections(m, base, m.docs[new_layer], DOMAIN m.docs[new_layer])

RECURSIVE merge_layers(_, _, _)
\* for d in dicts, from the accumulator at address result
merge_layers(m, result_, ds) ==
    IF ds = << >>
    THEN [mem |-> m, ref |-> result_]
    ELSE LET d == deepcopy(m, Head(ds))
         IN  IF DOMAIN d.mem.docs[result_] = {}
             THEN merge_layers(d.mem, d.ref, Tail(ds))
             ELSE merge_layers(_merge_conf_dicts(d.mem, result_, d.ref), result_, Tail(ds))

\* merge_conf_dicts(*dicts): result = {}, then the loop
merge_conf_dicts(m, ds) ==
    merge_layers([m EXCEPT !.docs = Append(@, << >>)], Len(m.docs) + 1, ds)

----------------------------------------------------------------------------
\* Input documents

Keys == {<<"a">>, STANZA_MAGIC_KEY}
Values == {<<"1">>, STANZA_OP_DROP}

\* every stanza over Keys and Values, the empty one included
StanzaDicts == UNION {[D -> Values] : D \in SUBSET Keys}

\* documents with no GLOBAL stanza: empty, or one stanza [s]
NamedDocs == {<< >>} \cup {Name(<<"s">>) :> sd : sd \in StanzaDicts}

\* ... and the same with key/value lines before the first header
Docs == NamedDocs \cup {d @@ (GLOBAL_STANZA :> (<<"a">> :> <<"1">>)) : d \in NamedDocs}

DocLists == UNION {[1..n -> Docs] : n \in 0..MaxLayers}

----------------------------------------------------------------------------
\* The variables of the operations that a behaviour does not call

MergeIdle == mem = EmptyMem /\ dicts = << >> /\ args = << >> /\ result = 0

DiffIdle == cfg1 = << >> /\ cfg2 = << >> /\ allow_level0 = TRUE /\ delta = << >>

ParseIdle ==
    /\ stream = << >>
    /\ parse_args = << >>
    /\ parsed = << >>
    /\ sort = TRUE
    /\ written = << >>
    /\ reparsed = << >>

FilesIdle == configs = << >> /\ merged_cfg = << >>

DiskIdle ==
    /\ fs = << >>
    /\ fs0 = << >>
    /\ clock = 0
    /\ filename = << >>
    /\ smart_conf = << >>
    /\ temp = << >>
    /\ smart_rc = << >>
    /\ syscalls = << >>

PromoteIdle ==
    /\ promote_args = << >>
    /\ fp_source = << >>
    /\ fp_target = << >>
    /\ cfg_src = << >>
    /\ cfg_tgt = << >>
    /\ diff = << >>
    /\ op_i = 0
    /\ out_src = << >>
    /\ out_cfg = << >>
    /\ accepted = << >>
    /\ cfg_final_src = << >>
    /\ cfg_final_tgt = << >>
    /\ exit_code = << >>
    /\ edits = << >>

MinimizeIdle ==
    /\ minimize_args = << >>
    /\ default_cfg = << >>
    /\ local_cfg = << >>
    /\ minz_cfg = << >>
    /\ diffs = << >>
    /\ diffs_i = 0

CmdIdle == DiskIdle /\ PromoteIdle /\ MinimizeIdle

----------------------------------------------------------------------------
\* merge_conf_dicts called on a list of documents

InitMerge ==
    /\ \E vs \in DocLists, share \in BOOLEAN :
          /\ args = vs
          /\ mem = NewDocs(EmptyMem, << >>, vs, share).mem
          /\ dicts = NewDocs(EmptyMem, << >>, vs, share).refs
    /\ result = 0
    /\ DiffIdle
    /\ CmdIdle
    /\ ParseIdle
    /\ FilesIdle
    /\ pc = "start"

MergeCall ==
    /\ pc = "start"
    /\ LET r == merge_conf_dicts(mem, dicts)
       IN  /\ mem' = r.mem
           /\ result' = r.ref
    /\ pc' = "returned"
    /\ UNCHANGED <<dicts, args, diff_vars, parse_vars, files_vars, cmd_vars>>

NextMerge == MergeCall

SpecMerge == InitMerge /\ [][NextMerge]_vars

\* the document a finished call returned
Merged == Val(mem, result)

----------------------------------------------------------------------------
\* Merge: the claims

\* two-layer calls: merge([A, B])
TwoLayers == pc = "returned" /\ Len(args) = 2

\* C1: merge_conf_dicts leaves every input document as it was when the call was
\* made (same stanzas, keys and values), and the returned document is an object
\* of its own that shares no stanza object with any input.
C1_InputsUnchangedAndUnshared ==
    pc = "returned" =>
        \A i \in 1..Len(dicts) :
            /\ Val(mem, dicts[i]) = args[i]
            /\ dicts[i] # result
            /\ StanzaAddrs(mem, dicts[i]) \cap StanzaAddrs(mem, result) = {}

\* a three-layer call that updated a stanza in place and then dropped it
C1_Witness ==
    /\ pc = "returned"
    /\ Len(args) = 3
    /\ \E S \in DOMAIN args[1] \cap DOMAIN args[2] \cap DOMAIN args[3] :
          /\ ~stanza_drops(args[2][S])
          /\ args[1][S] # args[2][S]
          /\ stanza_drops(args[3][S])
    /\ DOMAIN Merged # {}

\* C2 as stated: for any A and B and any key k of a stanza S of both,
\* merge([A, B]) contains S and maps k to B's value.
C2_OverrideAnyLayer ==
    TwoLayers =>
        \A S \in DOMAIN args[1] \cap DOMAIN args[2] :
            \A k \in DOMAIN args[1][S] \cap DOMAIN args[2][S] :
                S \in DOMAIN Merged /\ Merged[S][k] = args[2][S][k]

\* C2 amended: ... provided B's stanza S does not carry the drop marker.
C2_OverrideUnlessDropped ==
    TwoLayers =>
        \A S \in DOMAIN args[1] \cap DOMAIN args[2] :
            ~stanza_drops(args[2][S]) =>
                \A k \in DOMAIN args[1][S] \cap DOMAIN args[2][S] :
                    S \in DOMAIN Merged /\ Merged[S][k] = args[2][S][k]

\* B overrides a value of A
C2_Witness ==
    /\ TwoLayers
    /\ \E S \in DOMAIN args[1] \cap DOMAIN args[2] :
          /\ ~stanza_drops(args[2][S])
          /\ \E k \in DOMAIN args[1][S] \cap DOMAIN args[2][S] :
                args[1][S][k] # args[2][S][k] /\ Merged[S][k] = args[2][S][k]

\* C3: if S is a stanza of A and B's stanza S carries `_stanza` with a value
\* containing <<DROP>>, then S is not a stanza of merge([A, B]) and no key/value
\* of B's stanza S is applied: every entry of the result is an entry of the
\* same stanza of A or of B.
C3_DropRemovesStanza ==
    TwoLayers =>
        \A S \in DOMAIN args[1] \cap DOMAIN args[2] :
            stanza_drops(args[2][S]) =>
                /\ S \notin DOMAIN Merged
                /\ \A T \in DOMAIN Merged : \A k \in DOMAIN Merged[T] :
                      \E i \in 1..2 :
                          /\ T \in DOMAIN args[i]
                          /\ k \in DOMAIN args[i][T]
                          /\ args[i][T][k] = Merged[T][k]

\* B drops a stanza of A and lists another key under it; something is left
C3_Witness ==
    /\ TwoLayers
    /\ \E S \in DOMAIN args[1] \cap DOMAIN args[2] :
          /\ stanza_drops(args[2][S])
          /\ DOMAIN args[2][S] # {STANZA_MAGIC_KEY}
          /\ S \notin DOMAIN Merged
    /\ DOMAIN Merged # {}

\* C4: whatever the list of documents, no stanza of the merged result carries
\* the stanza-drop marker (the key `_stanza` with a value containing <<DROP>>).
C4_NoMarkerInResult ==
    pc = "returned" => \A S \in DOMAIN Merged : ~stanza_drops(Merged[S])

\* the values of merge([merge([A, B]), C]), computed after merge([A, B, C]) returned
MergeOfMerge ==
    LET ab == merge_conf_dicts(mem, <<dicts[1], dicts[2]>>)
        abc == merge_conf_dicts(ab.mem, <<ab.ref, dicts[3]>>)
    IN  Val(abc.mem, abc.ref)

\* no stanza of the document v carries the drop marker
NoDropMarker(v) == \A S \in DOMAIN v : ~stanza_drops(v[S])

\* C5: for all A, B, C without drop marker (empty documents and empty stanzas
\* included), merge([A, B, C]) equals merge([merge([A, B]), C]).
C5_LeftFold ==
    (pc = "returned" /\ Len(args) = 3 /\ \A i \in 1..3 : NoDropMarker(args[i]))
        => Merged = MergeOfMerge

\* three different layers of one stanza, over an empty first accumulator
C5_Witness ==
    /\ pc = "returned"
    /\ Len(args) = 3
    /\ \A i \in 1..3 : NoDropMarker(args[i])
    /\ \E S \in DOMAIN args[1] \cap DOMAIN args[2] \cap DOMAIN args[3] :
          /\ args[1][S] # args[2][S]
          /\ args[2][S] # args[3][S]
          /\ Merged[S] # args[3][S]
    /\ Merged = MergeOfMerge

\* C6 as stated: merge([A, A]) equals A for every document A.
C6_IdempotentAnyDoc ==
    (TwoLayers /\ args[1] = args[2]) => Merged = args[1]

\* C6 amended: ... for every document A without drop marker.
C6_IdempotentWithoutDrop ==
    (TwoLayers /\ args[1] = args[2] /\ NoDropMarker(args[1])) => Merged = args[1]

\* A, passed twice as one object, has a stanza with `_stanza` but no drop
C6_Witness ==
    /\ TwoLayers
    /\ dicts[1] = dicts[2]
    /\ NoDropMarker(args[1])
    /\ \E S \in DOMAIN args[1] : STANZA_MAGIC_KEY \in DOMAIN args[1][S]
    /\ Merged = args[1]

----------------------------------------------------------------------------
\* Diff logic

\* x < y on two objects that are a Token or a str (wrapped by Name), as
\* sorted() and list.sort() of Python 2 order them: two str byte-wise; a Token
\* before any str (objects of different types are ordered by the names of
\* their types, "Token" < "str")
py_lt(x, y) ==
    IF x.token /\ y.token THEN x.id < y.id
    ELSE IF x.token THEN TRUE
    ELSE IF y.token THEN FALSE
    ELSE str_lt(x.name, y.name)

\* sorted(S): the elements of the set S of Tokens and (wrapped) str, in order
sorted(S) ==
    [i \in 1..Cardinality(S) |->
        CHOOSE x \in S : Cardinality({y \in S : py_lt(y, x)}) = i - 1]

\* _cmp_sets(a, b): (a-only, common, b-only), each sorted
_cmp_sets(a, b) == <<sorted(a \ b), sorted(a \cap b), sorted(b \ a)>>

\* d.keys() of a stanza d, each str wrapped for sorted()
keys(d) == {Name(k) : k \in DOMAIN d}

DIFF_OP_INSERT == "insert"
DIFF_OP_DELETE == "delete"
DIFF_OP_REPLACE == "replace"
DIFF_OP_EQUAL == "equal"

None == << >>
Some(x) == <<x>>

DiffOp(tag, location, a, b) == [tag |-> tag, location |-> location, a |-> a, b |-> b]
DiffGlobal(type) == [type |-> type]
DiffStanza(type, stanza) == [type |-> type, stanza |-> stanza]
DiffStzKey(type, stanza, key) == [type |-> type, stanza |-> stanza, key |-> key]

\* Level 2 that reports only the keys that changed
compare_keys_changes_only(stanza, a_, b_) ==
    LET kv == _cmp_sets(keys(a_), keys(b_))
        kv_a == [i \in 1..Len(kv[1]) |-> kv[1][i].name]
        kv_b == [i \in 1..Len(kv[3]) |-> kv[3][i].name]
        changed == sorted({Name(k) : k \in {x \in DOMAIN a_ \cap DOMAIN b_ : a_[x] # b_[x]}})
    IN  [i \in 1..Len(kv_a) |->
            DiffOp(DIFF_OP_DELETE, DiffStzKey("key", stanza, kv_a[i]), None, Some(a_[kv_a[i]]))]
        \o
        [i \in 1..Len(kv_b) |->
            DiffOp(DIFF_OP_INSERT, DiffStzKey("key", stanza, kv_b[i]), Some(b_[kv_b[i]]), None)]
        \o
        [i \in 1..Len(changed) |->
            DiffOp(DIFF_OP_REPLACE, DiffStzKey("key", stanza, changed[i].name),
                   Some(a_[changed[i].name]), Some(b_[changed[i].name]))]

\* Level 2 - Key comparisons of the stanza a_ of a and b_ of b
compare_keys(stanza, a_, b_) ==
    LET kv == _cmp_sets(keys(a_), keys(b_))
        kv_a == [i \in 1..Len(kv[1]) |-> kv[1][i].name]
        kv_common == [i \in 1..Len(kv[2]) |-> kv[2][i].name]
        kv_b == [i \in 1..Len(kv[3]) |-> kv[3][i].name]
    IN  [i \in 1..Len(kv_a) |->
            DiffOp(DIFF_OP_DELETE, DiffStzKey("key", stanza, kv_a[i]), None, Some(a_[kv_a[i]]))]
        \o
        [i \in 1..Len(kv_b) |->
            DiffOp(DIFF_OP_INSERT, DiffStzKey("key", stanza, kv_b[i]), Some(b_[kv_b[i]]), None)]
        \o
        [i \in 1..Len(kv_common) |->
            LET a__ == a_[kv_common[i]]
                b__ == b_[kv_common[i]]
            IN  IF a__ = b__
                THEN DiffOp(DIFF_OP_EQUAL, DiffStzKey("key", stanza, kv_common[i]),
                            Some(a__), Some(b__))
                ELSE DiffOp(DIFF_OP_REPLACE, DiffStzKey("key", stanza, kv_common[i]),
                            Some(a__), Some(b__))]

\* the body of the loop without the swap of stanzas that share no key
compare_stanza_itemize(a, b, stanza) ==
    IF stanza \in DOMAIN a /\ stanza \in DOMAIN b
    THEN IF a[stanza] = b[stanza]
         THEN <<DiffOp(DIFF_OP_EQUAL, DiffStanza("stanza", stanza),
                       Some(a[stanza]), Some(b[stanza]))>>
         ELSE compare_keys(stanza, a[stanza], b[stanza])
    ELSE IF stanza \in DOMAIN a
    THEN <<DiffOp(DIFF_OP_DELETE, DiffStanza("stanza", stanza), None, Some(a[stanza]))>>
    ELSE <<DiffOp(DIFF_OP_INSERT, DiffStanza("stanza", stanza), Some(b[stanza]), None)>>

\* the body of the loop over all_stanzas: the ops of one stanza
compare_stanza(a, b, stanza) ==
    IF stanza \in DOMAIN a /\ stanza \in DOMAIN b
    THEN LET a_ == a[stanza]
             b_ == b[stanza]
         IN  IF a_ = b_
             THEN <<DiffOp(DIFF_OP_EQUAL, DiffStanza("stanza", stanza), Some(a_), Some(b_))>>
             ELSE IF _cmp_sets(keys(a_), keys(b_))[2] = << >>
             THEN <<DiffOp(DIFF_OP_REPLACE, DiffStanza("stanza", stanza), Some(a_), Some(b_))>>
             ELSE compare_keys(stanza, a_, b_)
    ELSE IF stanza \in DOMAIN a
    THEN <<DiffOp(DIFF_OP_DELETE, DiffStanza("stanza", stanza), None, Some(a[stanza]))>>
    ELSE <<DiffOp(DIFF_OP_INSERT, DiffStanza("stanza", stanza), Some(b[stanza]), None)>>

RECURSIVE compare_stanzas(_, _, _)
\* for stanza in all_stanzas: delta grows by the ops of each stanza in turn
compare_stanzas(a, b, all_stanzas) ==
    IF all_stanzas = << >>
    THEN << >>
    ELSE compare_stanza(a, b, Head(all_stanzas)) \o compare_stanzas(a, b, Tail(all_stanzas))

\* Level 1 without all_stanzas.sort(): GLOBAL_STANZA first, then the other
\* stanza keys as the set gives them, here last name first
compare_level1_unsorted(a, b) ==
    LET named == sorted({x \in DOMAIN a \cup DOMAIN b : ~x.token})
        n == Len(named)
    IN  compare_stanzas(a, b,
            sorted({x \in DOMAIN a \cup DOMAIN b : x.token})
            \o [i \in 1..n |-> named[n + 1 - i]])

\* Level 1: all_stanzas is the union of the stanza keys; GLOBAL_STANZA is put
\* first and then the whole list is sorted
compare_level1(a, b) ==
    compare_stanzas(a, b, sorted(DOMAIN a \cup DOMAIN b))

\* compare_cfgs that looks for common stanzas before it tests a == b
compare_cfgs_common_first(a, b, allow_level0_) ==
    IF allow_level0_ /\ _cmp_sets(DOMAIN a, DOMAIN b)[2] = << >>
    THEN <<DiffOp(DIFF_OP_REPLACE, DiffGlobal("global"), Some(a), Some(b))>>
    ELSE IF allow_level0_ /\ a = b
    THEN <<DiffOp(DIFF_OP_EQUAL, DiffGlobal("global"), Some(a), Some(b))>>
    ELSE compare_level1(a, b)

\* compare_cfgs that takes the level 0 shortcuts whatever allow_level0 is
compare_cfgs_always_level0(a, b, allow_level0_) ==
    IF a = b
    THEN <<DiffOp(DIFF_OP_EQUAL, DiffGlobal("global"), Some(a), Some(b))>>
    ELSE IF _cmp_sets(DOMAIN a, DOMAIN b)[2] = << >>
    THEN <<DiffOp(DIFF_OP_REPLACE, DiffGlobal("global"), Some(a), Some(b))>>
    ELSE compare_level1(a, b)

\* compare_cfgs(a, b, allow_level0)
compare_cfgs(a, b, allow_level0_) ==
    IF allow_level0_ /\ a = b
    THEN <<DiffOp(DIFF_OP_EQUAL, DiffGlobal("global"), Some(a), Some(b))>>
    ELSE IF allow_level0_ /\ _cmp_sets(DOMAIN a, DOMAIN b)[2] = << >>
    THEN <<DiffOp(DIFF_OP_REPLACE, DiffGlobal("global"), Some(a), Some(b))>>
    ELSE compare_level1(a, b)

----------------------------------------------------------------------------
\* compare_cfgs called on two documents

DiffKeys == {<<"a">>, <<"b">>, STANZA_MAGIC_KEY}
DiffValues == {<<"1">>, <<"2">>}

\* every stanza over DiffKeys and DiffValues, the empty one included
DiffStanzaDicts == UNION {[D -> DiffValues] : D \in SUBSET DiffKeys}

\* documents of up to three stanzas: lines before the first header, [s], [t]
DiffDocs ==
    {g @@ sd @@ t :
        g \in {<< >>, GLOBAL_STANZA :> (<<"a">> :> <<"1">>)},
        sd \in {<< >>} \cup {Name(<<"s">>) :> x : x \in DiffStanzaDicts},
        t \in {<< >>, Name(<<"t">>) :> (<<"a">> :> <<"1">>)}}

InitDiff ==
    /\ cfg1 \in DiffDocs
    /\ cfg2 \in DiffDocs
    /\ allow_level0 \in BOOLEAN
    /\ delta = << >>
    /\ MergeIdle
    /\ CmdIdle
    /\ ParseIdle
    /\ FilesIdle
    /\ pc = "start"

DiffCall ==
    /\ pc = "start"
    /\ delta' = compare_cfgs(cfg1, cfg2, allow_level0)
    /\ pc' = "returned"
    /\ UNCHANGED <<merge_vars, cfg1, cfg2, allow_level0, parse_vars, files_vars, cmd_vars>>

NextDiff == DiffCall

SpecDiff == InitDiff /\ [][NextDiff]_vars

----------------------------------------------------------------------------
\* Diff: the claims

\* the positions in delta of the ops at the location loc
OpsAt(loc) == {i \in 1..Len(delta) : delta[i].location = loc}

\* the positions in delta of the stanza-level and key-level ops of the stanza S
OpsOfStanza(S) ==
    {i \in 1..Len(delta) : delta[i].location.type # "global" /\ delta[i].location.stanza = S}

\* the call returned and the whole-file shortcut was disabled or not taken
Level1 ==
    /\ pc = "returned"
    /\ ~allow_level0 \/ (cfg1 # cfg2 /\ DOMAIN cfg1 \cap DOMAIN cfg2 # {})

\* C7: with the whole-file shortcut enabled, diff(A, A) is exactly one op, for
\* every document A (the empty one included): `equal` at file level.
C7_DiffOfEqualDocs ==
    (pc = "returned" /\ allow_level0 /\ cfg1 = cfg2) =>
        /\ Len(delta) = 1
        /\ delta[1].tag = DIFF_OP_EQUAL
        /\ delta[1].location = DiffGlobal("global")

\* the diff of the empty document with itself
C7_Witness ==
    /\ pc = "returned"
    /\ allow_level0
    /\ cfg1 = << >>
    /\ cfg2 = << >>
    /\ Len(delta) = 1
    /\ delta[1].tag = DIFF_OP_EQUAL

\* C8: with the shortcut enabled, two documents that are not equal and share no
\* stanza name (one of them may be empty) give exactly one op: `replace` at file
\* level carrying the documents a and b; with the shortcut disabled no op is at
\* file level.
C8_NoCommonStanza ==
    pc = "returned" =>
        /\ (allow_level0 /\ cfg1 # cfg2 /\ DOMAIN cfg1 \cap DOMAIN cfg2 = {}) =>
              delta = <<DiffOp(DIFF_OP_REPLACE, DiffGlobal("global"), Some(cfg1), Some(cfg2))>>
        /\ ~allow_level0 =>
              \A i \in 1..Len(delta) : delta[i].location.type # "global"

\* two documents of different stanzas, the shortcut enabled
C8_Witness ==
    /\ pc = "returned"
    /\ allow_level0
    /\ DOMAIN cfg1 # {}
    /\ DOMAIN cfg2 # {}
    /\ DOMAIN cfg1 \cap DOMAIN cfg2 = {}
    /\ Len(delta) = 1
    /\ delta[1].tag = DIFF_OP_REPLACE

\* C9: when the whole-file shortcut is disabled or not taken, every stanza of
\* a or b is classified one way: only in a, one stanza-level `delete`; only in
\* b, one stanza-level `insert`; in both and equal, one stanza-level `equal`;
\* in both, different, no key in common (one side may be empty), one
\* stanza-level `replace` and no key-level op; in both, different, a key in
\* common, key-level ops only.  No op names a stanza of neither document.
C9_StanzaClassification ==
    Level1 =>
        /\ \A i \in 1..Len(delta) :
              /\ delta[i].location.type # "global"
              /\ delta[i].location.stanza \in DOMAIN cfg1 \cup DOMAIN cfg2
        /\ \A S \in DOMAIN cfg1 \cup DOMAIN cfg2 :
              LET ops == OpsOfStanza(S)
                  One(tag) == \E i \in ops :
                                  /\ ops = {i}
                                  /\ delta[i].location = DiffStanza("stanza", S)
                                  /\ delta[i].tag = tag
              IN  IF S \notin DOMAIN cfg2 THEN One(DIFF_OP_DELETE)
                  ELSE IF S \notin DOMAIN cfg1 THEN One(DIFF_OP_INSERT)
                  ELSE IF cfg1[S] = cfg2[S] THEN One(DIFF_OP_EQUAL)
                  ELSE IF DOMAIN cfg1[S] \cap DOMAIN cfg2[S] = {} THEN One(DIFF_OP_REPLACE)
                  ELSE ops # {} /\ \A i \in ops : delta[i].location.type = "key"

\* a diff with a delete, an insert and a replace at stanza level, the replace
\* being one of an empty stanza
C9_Witness ==
    /\ Level1
    /\ \A tag \in {DIFF_OP_DELETE, DIFF_OP_INSERT, DIFF_OP_REPLACE} :
          \E i \in 1..Len(delta) : delta[i].tag = tag /\ delta[i].location.type = "stanza"
    /\ \E S \in DOMAIN cfg1 \cap DOMAIN cfg2 : cfg1[S] = << >> /\ cfg2[S] # << >>

\* C10: for a stanza of both documents that differs and shares a key, diff
\* gives exactly one key-level op for each key of the two stanzas: `delete` for
\* a key only in a, `insert` for a key only in b, `equal` for a key in both with
\* equal values, `replace` for a key in both with different values.
C10_KeyClassification ==
    pc = "returned" =>
        \A S \in DOMAIN cfg1 \cap DOMAIN cfg2 :
            (cfg1[S] # cfg2[S] /\ DOMAIN cfg1[S] \cap DOMAIN cfg2[S] # {}) =>
                /\ \A k \in DOMAIN cfg1[S] \cup DOMAIN cfg2[S] :
                      \E i \in 1..Len(delta) :
                          /\ OpsAt(DiffStzKey("key", S, k)) = {i}
                          /\ delta[i].tag =
                                IF k \notin DOMAIN cfg2[S] THEN DIFF_OP_DELETE
                                ELSE IF k \notin DOMAIN cfg1[S] THEN DIFF_OP_INSERT
                                ELSE IF cfg1[S][k] = cfg2[S][k] THEN DIFF_OP_EQUAL
                                ELSE DIFF_OP_REPLACE
                /\ \A i \in OpsOfStanza(S) :
                      /\ delta[i].location.type = "key"
                      /\ delta[i].location.key \in DOMAIN cfg1[S] \cup DOMAIN cfg2[S]

\* a stanza with a key only in a, a key in both with one value, and a key only
\* in b; three key-level ops
C10_Witness ==
    /\ pc = "returned"
    /\ \E S \in DOMAIN cfg1 \cap DOMAIN cfg2 :
          /\ DOMAIN cfg1[S] \ DOMAIN cfg2[S] # {}
          /\ DOMAIN cfg2[S] \ DOMAIN cfg1[S] # {}
          /\ \E k \in DOMAIN cfg1[S] \cap DOMAIN cfg2[S] : cfg1[S][k] = cfg2[S][k]
          /\ Cardinality(OpsOfStanza(S)) = 3

\* C11: in every DiffOp the field a holds the value of the location in document
\* a and the field b its value in document b, and the field of a side that
\* lacks the location is None: an `insert` op has b's value in b, a `delete` op
\* has a's value in a; one convention for the four tags.
C11_FieldsFollowSides ==
    pc = "returned" =>
        \A i \in 1..Len(delta) :
            LET op == delta[i]
                S == op.location.stanza
                k == op.location.key
            IN  IF op.location.type = "global"
                THEN op.a = Some(cfg1) /\ op.b = Some(cfg2)
                ELSE IF op.location.type = "stanza"
                THEN /\ op.a = IF S \in DOMAIN cfg1 THEN Some(cfg1[S]) ELSE None
                     /\ op.b = IF S \in DOMAIN cfg2 THEN Some(cfg2[S]) ELSE None
                ELSE /\ op.a = IF k \in DOMAIN cfg1[S] THEN Some(cfg1[S][k]) ELSE None
                     /\ op.b = IF k \in DOMAIN cfg2[S] THEN Some(cfg2[S][k]) ELSE None

\* delete before insert before equal and replace
TagRank(tag) ==
    IF tag = DIFF_OP_DELETE THEN 1 ELSE IF tag = DIFF_OP_INSERT THEN 2 ELSE 3

\* C12: in the list diff returns, the ops of the GLOBAL stanza come before the
\* ops of every named stanza, the named stanzas come in the lexical order of
\* their names, and among the key-level ops of one stanza the deletes come
\* before the inserts, which come before the equal and replace ops.
C12_OrderOfOps ==
    Level1 =>
        \A i, j \in 1..Len(delta) :
            i < j =>
                LET x == delta[i].location
                    y == delta[j].location
                IN  /\ y.stanza = GLOBAL_STANZA => x.stanza = GLOBAL_STANZA
                    /\ (~x.stanza.token /\ ~y.stanza.token /\ x.stanza # y.stanza)
                          => str_lt(x.stanza.name, y.stanza.name)
                    /\ (x.stanza = y.stanza /\ x.type = "key" /\ y.type = "key")
                          => TagRank(delta[i].tag) <= TagRank(delta[j].tag)

\* ops of GLOBAL, of [s] at key level with a delete, an insert and a replace,
\* and of [t]
C12_Witness ==
    /\ Level1
    /\ \E i \in 1..Len(delta) : delta[i].location.stanza = GLOBAL_STANZA
    /\ \E i \in 1..Len(delta) : delta[i].location.stanza = Name(<<"t">>)
    /\ \A tag \in {DIFF_OP_DELETE, DIFF_OP_INSERT, DIFF_OP_REPLACE} :
          \E i \in 1..Len(delta) :
              /\ delta[i].location.type = "key"
              /\ delta[i].location.stanza = Name(<<"s">>)
              /\ delta[i].tag = tag

----------------------------------------------------------------------------
\* Strings of the parser

\* the characters str.strip() removes and \s matches
whitespace == {" ", "\t", "\n", "\r", "\f"}

\* s.rstrip(chars)
RECURSIVE rstrip(_, _)
rstrip(s, chars) ==
    IF s # << >> /\ s[Len(s)] \in chars
    THEN rstrip(SubSeq(s, 1, Len(s) - 1), chars)
    ELSE s

\* s.lstrip(chars)
RECURSIVE lstrip(_, _)
lstrip(s, chars) ==
    IF s # << >> /\ s[1] \in chars THEN lstrip(Tail(s), chars) ELSE s

\* s.strip()
strip(s) == lstrip(rstrip(s, whitespace), whitespace)

\* s.lower(), on the letters in use
lower(s) == [i \in 1..Len(s) |-> IF s[i] = "K" THEN "k" ELSE s[i]]

\* c in s, for a character c
CharIn(c, s) == \E i \in 1..Len(s) : s[i] = c

\* s.split(sep, 1) where sep is in s: the parts before and after the first sep
split1(s, sep) ==
    LET i == CHOOSE j \in 1..Len(s) : s[j] = sep /\ \A h \in 1..(j - 1) : s[h] # sep
    IN  <<SubSeq(s, 1, i - 1), SubSeq(s, i + 1, Len(s))>>

\* section_re.match(line) for r'^\[(.*)\]\s*$': None, or group(1).  The group
\* is cut at the last "]", the only one that \s*$ can follow, and `.` does
\* not match a newline.
section_re_match(line) ==
    LET close == {j \in 2..Len(line) :
                     /\ line[j] = "]"
                     /\ \A i \in (j + 1)..Len(line) : line[i] \in whitespace
                     /\ \A i \in 2..(j - 1) : line[i] # "\n"}
    IN  IF line # << >> /\ line[1] = "[" /\ close # {}
        THEN Some(SubSeq(line, 2, (CHOOSE j \in close : TRUE) - 1))
        ELSE None

\* continue_re.match(line) for r"^(.*)\\$": None, or group(1).  `$` is the end
\* of the line or the place before its final newline.
continue_re_match(line) ==
    LET n == Len(line)
        e == IF n >= 1 /\ line[n] = "\n" THEN n - 1 ELSE n
    IN  IF e >= 1 /\ line[e] = "\\" /\ \A i \in 1..(e - 1) : line[i] # "\n"
        THEN Some(SubSeq(line, 1, e - 1))
        ELSE None

\* comments_re.search(entry) for r"^\s*#"
comments_re_search(entry) ==
    \E i \in 1..Len(entry) :
        entry[i] = "#" /\ \A h \in 1..(i - 1) : entry[h] \in whitespace

----------------------------------------------------------------------------
\* Parsing

DUP_OVERWRITE == "overwrite"
DUP_EXCEPTION == "exception"
DUP_MERGE == "merge"

\* cont_handler from the i-th line on, buf being what the continuation lines
\* before it have left
RECURSIVE cont_handler_from(_, _, _)
cont_handler_from(iterable, i, buf) ==
    IF i > Len(iterable)
    THEN IF buf # << >> THEN <<buf>> ELSE << >>
    ELSE LET line == iterable[i]
             mo == continue_re_match(line)
         IN  IF mo # None
             THEN cont_handler_from(iterable, i + 1, buf \o mo[1] \o <<"\n">>)
             ELSE IF buf # << >>
             THEN <<buf \o line>> \o cont_handler_from(iterable, i + 1, << >>)
             ELSE <<line>> \o cont_handler_from(iterable, i + 1, << >>)

\* the lines cont_handler yields
cont_handler(iterable) == cont_handler_from(iterable, 1, << >>)

\* `if section`: a section that is neither None nor ""
section_true(section) == section # None /\ section[1] # << >>

\* section_reader from the i-th line on; section is None or Some(name)
RECURSIVE section_reader_from(_, _, _, _)
section_reader_from(lines, i, section, buf) ==
    IF i > Len(lines)
    THEN IF section_true(section) \/ buf # << >>
         THEN << <<section, buf>> >>
         ELSE << >>
    ELSE LET line == rstrip(lines[i], {"\r", "\n"})
             match == section_re_match(line)
         IN  IF match # None
             THEN (IF buf # << >> THEN << <<section, buf>> >> ELSE << >>)
                  \o section_reader_from(lines, i + 1, match, << >>)
             ELSE section_reader_from(lines, i + 1, section, Append(buf, line))

\* the (section, buf) pairs section_reader yields
section_reader(lines) == section_reader_from(lines, 1, None, << >>)

\* splitup_kvpairs with keep_comments=False from the i-th entry on: the
\* <<"yield", k, v>> it gives in turn, ended by <<"raise", exception>> when it
\* raises
RECURSIVE splitup_kvpairs_from(_, _, _)
splitup_kvpairs_from(lines, i, strict) ==
    IF i > Len(lines)
    THEN << >>
    ELSE LET entry == lines[i]
         IN  IF comments_re_search(entry)
             THEN splitup_kvpairs_from(lines, i + 1, strict)
             ELSE IF CharIn("=", entry)
             THEN << <<"yield",
                       rstrip(split1(entry, "=")[1], whitespace),
                       lstrip(split1(entry, "=")[2], whitespace)>> >>
                  \o splitup_kvpairs_from(lines, i + 1, strict)
             ELSE IF strict /\ strip(entry) # << >>
             THEN << <<"raise", "ConfParserException">> >>
             ELSE splitup_kvpairs_from(lines, i + 1, strict)

splitup_kvpairs(lines, strict) == splitup_kvpairs_from(lines, 1, strict)

\* the loop over the key/value pairs of one section occurrence, from the i-th
\* on: the stanza dict s it fills, or the exception it raises
RECURSIVE parse_stanza_from(_, _, _, _, _)
parse_stanza_from(pairs, i, s, local_stanza, opts) ==
    IF i > Len(pairs)
    THEN [raised |-> None, s |-> s]
    ELSE IF pairs[i][1] = "raise"
    THEN [raised |-> Some(pairs[i][2]), s |-> s]
    ELSE LET key == IF opts.keys_lower THEN lower(pairs[i][2]) ELSE pairs[i][2]
             value == pairs[i][3]
         IN  IF key \in DOMAIN local_stanza
             THEN IF opts.dup_key \in {DUP_OVERWRITE, DUP_MERGE}
                  THEN parse_stanza_from(pairs, i + 1, DictSet(s, key, value),
                                         DictSet(local_stanza, key, value), opts)
                  ELSE IF opts.dup_key = DUP_EXCEPTION
                  THEN [raised |-> Some("DuplicateKeyException"), s |-> s]
                  ELSE parse_stanza_from(pairs, i + 1, s, local_stanza, opts)
             ELSE parse_stanza_from(pairs, i + 1, DictSet(s, key, value),
                                    DictSet(local_stanza, key, value), opts)

\* the key of a section without header under the empty name
section_key_empty_name(section) ==
    IF section = None THEN Name(<< >>) ELSE Name(section[1])

\* `if section is None: section = GLOBAL_STANZA`: the key of the section in
\* the document
section_key(section) ==
    IF section = None THEN GLOBAL_STANZA ELSE Name(section[1])

\* the loop of parse_conf over the sections the reader yields, from the i-th on
RECURSIVE parse_sections_from(_, _, _, _)
parse_sections_from(reader, i, sections, opts) ==
    IF i > Len(reader)
    THEN [raised |-> None, sections |-> sections]
    ELSE LET section == section_key(reader[i][1])
             entry == reader[i][2]
             dup == section \in DOMAIN sections
             body == parse_stanza_from(
                         splitup_kvpairs(entry, opts.strict), 1,
                         IF dup /\ opts.dup_stanza = DUP_MERGE
                         THEN sections[section]
                         ELSE << >>,
                         << >>, opts)
         IN  IF dup /\ opts.dup_stanza = DUP_EXCEPTION
             THEN [raised |-> Some("DuplicateStanzaException"), sections |-> << >>]
             ELSE IF body.raised # None
             THEN [raised |-> body.raised, sections |-> << >>]
             ELSE parse_sections_from(reader, i + 1,
                                      DictSet(sections, section, body.s), opts)

\* parse_conf that takes a stanza found again as under dup_stanza=overwrite
parse_conf_dup_stanza_overwrite(lines, opts) ==
    parse_sections_from(section_reader(cont_handler(lines)), 1, << >>,
                        [opts EXCEPT !.dup_stanza = DUP_OVERWRITE])

\* parse_conf that takes a key found again as under dup_key=overwrite
parse_conf_dup_key_overwrite(lines, opts) ==
    parse_sections_from(section_reader(cont_handler(lines)), 1, << >>,
                        [opts EXCEPT !.dup_key = DUP_OVERWRITE])

\* parse_conf(stream, **opts) with keep_comments=False: the exception it
\* raises or None, and the document it returns
parse_conf(lines, opts) ==
    parse_sections_from(
        IF opts.handle_conts
        THEN section_reader(cont_handler(lines))
        ELSE section_reader(lines),
        1, << >>, opts)

----------------------------------------------------------------------------
\* parse_conf called on a file

\* the most lines of a file
MaxLines == 4

\* the lines of the files: two headers, key/value lines (among them the same
\* key twice and in two letter cases), a line without "=", a blank line and a
\* comment
Lines ==
    { <<"[", "a", "]", "\n">>,
      <<"[", "]", "\n">>,
      <<"k", " ", "=", " ", "v", "\n">>,
      <<"k", " ", "=", " ", "w", "\n">>,
      <<"K", " ", "=", " ", "x", "\n">>,
      <<"j", "\n">>,
      <<" ", "\n">>,
      <<"#", "c", "\n">> }

Files == UNION {[1..n -> Lines] : n \in 0..MaxLines}

\* the options of the callers; handle_conts is never passed, keep_comments is
\* left False
ParseArgs ==
    [keys_lower : BOOLEAN, handle_conts : {TRUE}, strict : BOOLEAN,
     dup_stanza : {DUP_OVERWRITE, DUP_EXCEPTION, DUP_MERGE},
     dup_key : {DUP_OVERWRITE, DUP_EXCEPTION, DUP_MERGE}]

InitParse ==
    /\ stream \in Files
    /\ parse_args \in ParseArgs
    /\ parsed = << >>
    /\ sort = TRUE
    /\ written = << >>
    /\ reparsed = << >>
    /\ MergeIdle
    /\ DiffIdle
    /\ CmdIdle
    /\ FilesIdle
    /\ pc = "start"

ParseCall ==
    /\ pc = "start"
    /\ parsed' = parse_conf(stream, parse_args)
    /\ pc' = "parsed"
    /\ UNCHANGED <<merge_vars, diff_vars, files_vars, cmd_vars,
                   stream, parse_args, sort, written, reparsed>>

NextParse == ParseCall

SpecParse == InitParse /\ [][NextParse]_vars

----------------------------------------------------------------------------
\* Parse: the claims

\* the name in the header on the i-th line, None when the line is no header
HeaderAt(lines, i) == section_re_match(rstrip(lines[i], {"\r", "\n"}))

\* the lines where a header names the stanza
Occurrences(lines, name) == {i \in 1..Len(lines) : HeaderAt(lines, i) = Some(name)}

\* the stanza names of the headers
HeaderNames(lines) == {HeaderAt(lines, i)[1] : i \in {j \in 1..Len(lines) : HeaderAt(lines, j) # None}}

\* the lines under the header on the i-th line, up to the next header; for
\* i = 0 the lines before the first header
Block(lines, i) ==
    LET later == {j \in (i + 1)..Len(lines) : HeaderAt(lines, j) # None}
        end == IF later = {}
               THEN Len(lines)
               ELSE (CHOOSE j \in later : \A h \in later : j <= h) - 1
    IN  SubSeq(lines, i + 1, end)

\* the <<key, value>> of the key/value lines among the given lines, in order
PairsOf(lines, opts) ==
    LET kv == splitup_kvpairs([h \in 1..Len(lines) |-> rstrip(lines[h], {"\r", "\n"})],
                              FALSE)
    IN  [h \in 1..Len(kv) |->
            <<IF opts.keys_lower THEN lower(kv[h][2]) ELSE kv[h][2], kv[h][3]>>]

\* each key of the pairs with the value of its last pair
LastWins(pairs) ==
    [k \in {pairs[h][1] : h \in DOMAIN pairs} |->
        pairs[CHOOSE h \in DOMAIN pairs :
                /\ pairs[h][1] = k
                /\ \A g \in DOMAIN pairs : pairs[g][1] = k => g <= h][2]]

\* a key is in two of the pairs
RepeatsKey(pairs) ==
    \E g, h \in DOMAIN pairs : g < h /\ pairs[g][1] = pairs[h][1]

\* the first lines of the occurrences: 0 for the lines before the first header
OccurrenceStarts(lines) ==
    {0} \cup {i \in 1..Len(lines) : HeaderAt(lines, i) # None}

\* the concatenation of the blocks under the given header lines, in order
RECURSIVE BlocksOf(_, _)
BlocksOf(lines, starts) ==
    IF starts = {}
    THEN << >>
    ELSE LET i == CHOOSE j \in starts : \A h \in starts : j <= h
         IN  Block(lines, i) \o BlocksOf(lines, starts \ {i})

\* a line that is no header, no comment, not blank, and has no "="
Unparseable(line) ==
    LET entry == rstrip(line, {"\r", "\n"})
    IN  /\ section_re_match(entry) = None
        /\ ~comments_re_search(entry)
        /\ ~CharIn("=", entry)
        /\ strip(entry) # << >>

\* the lines without the i-th
RemoveAt(lines, i) == SubSeq(lines, 1, i - 1) \o SubSeq(lines, i + 1, Len(lines))

\* the keys and values a document holds for a stanza
StanzaOf(conf, section) == IF section \in DOMAIN conf THEN conf[section] ELSE << >>

\* no option other than dup_stanza can make the parse raise
OnlyDupStanzaRaises == ~parse_args.strict /\ parse_args.dup_key # DUP_EXCEPTION

\* C13: under dup_stanza=exception, a file in which two header lines name the
\* same stanza, wherever they are and whatever is under them, makes parse_conf
\* raise DuplicateStanzaException (the other options being such that nothing
\* else raises before).
C13_RepeatedHeaderRaises ==
    (pc = "parsed" /\ parse_args.dup_stanza = DUP_EXCEPTION /\ OnlyDupStanzaRaises)
        => \A name \in HeaderNames(stream) :
              Cardinality(Occurrences(stream, name)) > 1
                  => parsed.raised = Some("DuplicateStanzaException")

\* C14: under dup_stanza=overwrite, a stanza whose header is on several lines
\* holds, after a parse that returned, exactly the keys and values of the
\* lines under the last of these headers, and none of an earlier occurrence.
C14_LastOccurrenceOnly ==
    (pc = "parsed" /\ parse_args.dup_stanza = DUP_OVERWRITE /\ parsed.raised = None)
        => \A name \in HeaderNames(stream) :
              LET occ == Occurrences(stream, name)
                  last == CHOOSE i \in occ : \A h \in occ : h <= i
              IN  (Cardinality(occ) > 1 /\ Name(name) \in DOMAIN parsed.sections)
                      => parsed.sections[Name(name)]
                           = LastWins(PairsOf(Block(stream, last), parse_args))

\* C15: under dup_stanza=merge, after a parse that returned, a stanza whose
\* header is on several lines holds the keys of the lines under all these
\* headers, each with the value of its last line in the file; and whenever
\* DuplicateKeyException is raised, a key is twice under one header (or twice
\* before the first header), not only under two headers of one stanza.
C15_MergeUnionLastWins ==
    (pc = "parsed" /\ parse_args.dup_stanza = DUP_MERGE)
        => /\ parsed.raised = None
                => \A name \in HeaderNames(stream) :
                      Cardinality(Occurrences(stream, name)) > 1
                          => StanzaOf(parsed.sections, Name(name))
                               = LastWins(PairsOf(BlocksOf(stream, Occurrences(stream, name)),
                                                  parse_args))
           /\ parsed.raised = Some("DuplicateKeyException")
                => /\ parse_args.dup_key = DUP_EXCEPTION
                   /\ \E i \in OccurrenceStarts(stream) :
                          RepeatsKey(PairsOf(Block(stream, i), parse_args))

\* a stanza on two headers and a key under both, with two values: the parse
\* returned under dup_key=exception and the stanza holds the second value
C15_Witness ==
    /\ pc = "parsed"
    /\ parse_args.dup_stanza = DUP_MERGE
    /\ parse_args.dup_key = DUP_EXCEPTION
    /\ stream = << <<"[", "a", "]", "\n">>,
                   <<"k", " ", "=", " ", "v", "\n">>,
                   <<"[", "a", "]", "\n">>,
                   <<"k", " ", "=", " ", "w", "\n">> >>
    /\ parsed.raised = None
    /\ parsed.sections = Name(<<"a">>) :> (<<"k">> :> <<"w">>)

\* C16: under dup_key=exception a key that is twice under one header makes
\* parse_conf raise, and raise DuplicateKeyException when no other option
\* raises; under dup_key=overwrite or merge DuplicateKeyException is never
\* raised and, after a parse that returned, the stanza holds for a key that is
\* twice under its last header the value of the last of these lines.  With
\* keys_lower, keys that differ in letter case only are one key.
C16_DuplicateKeyPolicy ==
    pc = "parsed" =>
        /\ parse_args.dup_key = DUP_EXCEPTION
              => \A i \in OccurrenceStarts(stream) :
                    RepeatsKey(PairsOf(Block(stream, i), parse_args))
                        => /\ parsed.raised # None
                           /\ (~parse_args.strict /\ parse_args.dup_stanza # DUP_EXCEPTION)
                                 => parsed.raised = Some("DuplicateKeyException")
        /\ parse_args.dup_key \in {DUP_OVERWRITE, DUP_MERGE}
              => /\ parsed.raised # Some("DuplicateKeyException")
                 /\ parsed.raised = None
                       => \A i \in OccurrenceStarts(stream) :
                             LET section == IF i = 0 THEN GLOBAL_STANZA
                                            ELSE Name(HeaderAt(stream, i)[1])
                                 pairs == PairsOf(Block(stream, i), parse_args)
                             IN  (i = 0 \/ \A h \in Occurrences(stream, HeaderAt(stream, i)[1]) : h <= i)
                                     => \A k \in DOMAIN LastWins(pairs) :
                                            /\ k \in DOMAIN StanzaOf(parsed.sections, section)
                                            /\ parsed.sections[section][k] = LastWins(pairs)[k]

\* keys_lower made k and K one key: the pair raised under dup_key=exception
C16_Witness ==
    /\ pc = "parsed"
    /\ parse_args.keys_lower
    /\ parse_args.dup_key = DUP_EXCEPTION
    /\ stream = << <<"[", "a", "]", "\n">>,
                   <<"k", " ", "=", " ", "v", "\n">>,
                   <<"K", " ", "=", " ", "x", "\n">> >>
    /\ parsed.raised = Some("DuplicateKeyException")

\* C17: with strict, a line that is not blank, no comment and without "="
\* makes parse_conf raise ConfParserException (the other options being such
\* that nothing else raises); without strict, parse_conf does on the file what
\* it does on the file without that line.
C17_StrictOrSkipped ==
    pc = "parsed" =>
        \A i \in 1..Len(stream) :
            Unparseable(stream[i])
                => /\ (parse_args.strict
                          /\ parse_args.dup_stanza # DUP_EXCEPTION
                          /\ parse_args.dup_key # DUP_EXCEPTION)
                      => parsed.raised = Some("ConfParserException")
                   /\ ~parse_args.strict
                      => parsed = parse_conf(RemoveAt(stream, i), parse_args)

----------------------------------------------------------------------------
\* Writing

\* value.replace("\n", "\\\n")
RECURSIVE replace_newline(_)
replace_newline(value) ==
    IF value = << >>
    THEN << >>
    ELSE (IF value[1] = "\n" THEN <<"\\", "\n">> ELSE <<value[1]>>)
         \o replace_newline(Tail(value))

\* sorter(d.iteritems()) as the list of the keys: sorted, or with sorter = iter
\* the order of the dict, which is any; two orders stand for it
sorter(ks, sort_, reversed) ==
    IF sort_ \/ ~reversed
    THEN sorted(ks)
    ELSE [i \in 1..Cardinality(ks) |-> sorted(ks)[Cardinality(ks) + 1 - i]]

\* what write_stanza_body writes for the i-th key on
RECURSIVE write_stanza_body_from(_, _, _)
write_stanza_body_from(items, order, i) ==
    IF i > Len(order)
    THEN <<"\n">>
    ELSE LET key == order[i].name
             value == items[key]
         IN  (IF key # << >> /\ key[1] = "#"
              THEN value \o <<"\n">>
              ELSE key \o <<" ", "=", " ">> \o replace_newline(value) \o <<"\n">>)
             \o write_stanza_body_from(items, order, i + 1)

\* what write_stanza_body writes, with stanza_delim="\n"
write_stanza_body(items, sort_, reversed) ==
    write_stanza_body_from(items, sorter(keys(items), sort_, reversed), 1)

\* what the loop over the named stanzas writes for the i-th on
RECURSIVE write_sections_from(_, _, _, _, _)
write_sections_from(conf, order, i, sort_, reversed) ==
    IF i > Len(order)
    THEN << >>
    ELSE <<"[">> \o order[i].name \o <<"]", "\n">>
         \o write_stanza_body(conf[order[i]], sort_, reversed)
         \o write_sections_from(conf, order, i + 1, sort_, reversed)

\* write_conf that writes the GLOBAL stanza where the loop ends
write_conf_global_last(conf, sort_, reversed) ==
    write_sections_from(conf, sorter(DOMAIN conf \ {GLOBAL_STANZA}, sort_, reversed),
                        1, sort_, reversed)
    \o (IF GLOBAL_STANZA \in DOMAIN conf
        THEN write_stanza_body(conf[GLOBAL_STANZA], sort_, reversed)
        ELSE << >>)

\* the caller's document after write_conf: `conf = dict(conf)` makes the
\* document that `del conf[GLOBAL_STANZA]` changes a copy
write_conf_caller(conf) == conf

\* the text write_conf(stream, conf, sort=sort_) writes
write_conf(conf, sort_, reversed) ==
    (IF GLOBAL_STANZA \in DOMAIN conf
     THEN write_stanza_body(conf[GLOBAL_STANZA], sort_, reversed)
     ELSE << >>)
    \o write_sections_from(conf, sorter(DOMAIN conf \ {GLOBAL_STANZA}, sort_, reversed),
                           1, sort_, reversed)

\* the lines that iterating a file of the given text gives
RECURSIVE readlines_from(_, _, _)
readlines_from(text, i, line) ==
    IF i > Len(text)
    THEN IF line # << >> THEN <<line>> ELSE << >>
    ELSE IF text[i] = "\n"
    THEN <<Append(line, "\n")>> \o readlines_from(text, i + 1, << >>)
    ELSE readlines_from(text, i + 1, Append(line, text[i]))

readlines(text) == readlines_from(text, 1, << >>)

----------------------------------------------------------------------------
\* A parsed file written and parsed again

\* the lines of the files: two headers, key/value lines, a blank line, and
\* lines that end in a backslash: after a value, after a key, and after another
\* backslash
ContLines ==
    { <<"[", "a", "]", "\n">>,
      <<"[", "]", "\n">>,
      <<"k", " ", "=", " ", "v", "\n">>,
      <<"x", " ", "=", " ", "w", "\n">>,
      <<"\n">>,
      <<"k", " ", "=", " ", "v", "\\", "\n">>,
      <<"k", "\\", "\n">>,
      <<"k", " ", "=", " ", "v", "\\", "\\", "\n">> }

ContFiles == UNION {[1..n -> ContLines] : n \in 0..MaxLines}

\* parse_conf(stream): the defaults of the keyword arguments
DefaultArgs ==
    [keys_lower |-> FALSE, handle_conts |-> TRUE, strict |-> FALSE,
     dup_stanza |-> DUP_EXCEPTION, dup_key |-> DUP_OVERWRITE]

InitRoundTrip ==
    /\ stream \in ContFiles
    /\ parse_args = DefaultArgs
    /\ parsed = << >>
    /\ sort \in BOOLEAN
    /\ written = << >>
    /\ reparsed = << >>
    /\ MergeIdle
    /\ DiffIdle
    /\ CmdIdle
    /\ FilesIdle
    /\ pc = "start"

\* write_conf on the document parse_conf returned
WriteCall ==
    /\ pc = "parsed"
    /\ parsed.raised = None
    /\ \E reversed \in BOOLEAN :
          written' = write_conf(parsed.sections, sort, reversed)
    /\ parsed' = [parsed EXCEPT !.sections = write_conf_caller(@)]
    /\ pc' = "written"
    /\ UNCHANGED <<merge_vars, diff_vars, files_vars, cmd_vars,
                   stream, parse_args, sort, reparsed>>

\* parse_conf on the file written
ReparseCall ==
    /\ pc = "written"
    /\ reparsed' = parse_conf(readlines(written), parse_args)
    /\ pc' = "reparsed"
    /\ UNCHANGED <<merge_vars, diff_vars, files_vars, cmd_vars,
                   stream, parse_args, parsed, sort, written>>

NextRoundTrip == ParseCall \/ WriteCall \/ ReparseCall

SpecRoundTrip == InitRoundTrip /\ [][NextRoundTrip]_vars

----------------------------------------------------------------------------
\* merge_conf_files called on a list of files

\* the most files given to merge_conf_files
MaxConfigs == 2

\* the most lines of one of these files
MaxConfLines == 3

\* the lines of these files: the header of the stanza of the empty name, and
\* a key with two values
ConfLines ==
    { <<"[", "]", "\n">>,
      <<"k", " ", "=", " ", "v", "\n">>,
      <<"k", " ", "=", " ", "w", "\n">> }

ConfFiles == UNION {[1..n -> ConfLines] : n \in 0..MaxConfLines}

ConfigLists == UNION {[1..n -> ConfFiles] : n \in 0..MaxConfigs}

\* parse_args of do_merge; keep_comments makes no difference on files without
\* comments
MergeParseArgs ==
    [keys_lower : {FALSE}, handle_conts : {TRUE}, strict : {TRUE},
     dup_stanza : {DUP_OVERWRITE, DUP_EXCEPTION, DUP_MERGE},
     dup_key : {DUP_OVERWRITE}]

InitFiles ==
    /\ configs \in ConfigLists
    /\ parse_args \in MergeParseArgs
    /\ merged_cfg = << >>
    /\ stream = << >>
    /\ parsed = << >>
    /\ sort = TRUE
    /\ written = << >>
    /\ reparsed = << >>
    /\ MergeIdle
    /\ DiffIdle
    /\ CmdIdle
    /\ pc = "start"

\* cfgs of merge_conf_files: what parse_conf did on each file
cfgs == [i \in DOMAIN configs |-> parse_conf(configs[i], parse_args)]

\* merge_conf_files(dest_file, configs, parse_args) with a stream dest_file;
\* an exception of parse_conf ends the call
merge_conf_files ==
    /\ pc = "start"
    /\ IF \E i \in DOMAIN configs : cfgs[i].raised # None
       THEN /\ pc' = "raised"
            /\ UNCHANGED <<merge_vars, merged_cfg, written>>
       ELSE LET vs == [i \in DOMAIN configs |-> cfgs[i].sections]
                new == NewDocs(EmptyMem, << >>, vs, FALSE)
                r == merge_conf_dicts(new.mem, new.refs)
            IN  /\ args' = vs
                /\ dicts' = new.refs
                /\ mem' = r.mem
                /\ result' = r.ref
                /\ merged_cfg' = Val(r.mem, r.ref)
                /\ written' = write_conf(Val(r.mem, r.ref), TRUE, FALSE)
                /\ pc' = "returned"
    /\ UNCHANGED <<diff_vars, cmd_vars, configs, stream, parse_args, parsed, sort, reparsed>>

NextFiles == merge_conf_files

SpecFiles == InitFiles /\ [][NextFiles]_vars

----------------------------------------------------------------------------
\* GLOBAL and the stanza of the empty name, continuations, the round trip:
\* the claims

\* the stanzas of the given key in the documents of the layers, merged: each
\* key of any layer, with the value of the last layer that has it
Layered(docs, section) ==
    LET has(k) == {i \in DOMAIN docs : k \in DOMAIN StanzaOf(docs[i], section)}
    IN  [k \in UNION {DOMAIN StanzaOf(docs[i], section) : i \in DOMAIN docs} |->
            StanzaOf(docs[CHOOSE i \in has(k) : \A h \in has(k) : h <= i], section)[k]]

\* C18: the key/value lines before the first header of a file are under
\* GLOBAL_STANZA in its document and the lines under a `[]` header under the
\* stanza of the empty name, as two entries; and in the merge of the files'
\* documents GLOBAL_STANZA holds what the GLOBAL stanzas of the layers give and
\* the stanza of the empty name what the `[]` stanzas of the layers give,
\* neither anything of the other.
C18_GlobalIsNotEmptyName ==
    pc = "returned" =>
        /\ \A i \in DOMAIN configs :
              LET conf == cfgs[i].sections
                  empty == StanzaOf(conf, Name(<< >>))
              IN  /\ StanzaOf(conf, GLOBAL_STANZA)
                       = LastWins(PairsOf(Block(configs[i], 0), parse_args))
                  /\ (GLOBAL_STANZA \in DOMAIN conf) = (Block(configs[i], 0) # << >>)
                  /\ \A k \in DOMAIN empty :
                        \E j \in Occurrences(configs[i], << >>) :
                            LET under == LastWins(PairsOf(Block(configs[i], j), parse_args))
                            IN  k \in DOMAIN under /\ under[k] = empty[k]
                  /\ Occurrences(configs[i], << >>) # {}
                        => LET occ == Occurrences(configs[i], << >>)
                               last == CHOOSE j \in occ : \A h \in occ : h <= j
                               under == LastWins(PairsOf(Block(configs[i], last), parse_args))
                           IN  \A k \in DOMAIN under :
                                   k \in DOMAIN empty /\ empty[k] = under[k]
        /\ StanzaOf(merged_cfg, GLOBAL_STANZA)
             = Layered([i \in DOMAIN configs |-> cfgs[i].sections], GLOBAL_STANZA)
        /\ StanzaOf(merged_cfg, Name(<< >>))
             = Layered([i \in DOMAIN configs |-> cfgs[i].sections], Name(<< >>))

\* two files, each with the key k before the first header and under `[]`,
\* with crossed values: the merge holds the second file's value in each
C18_Witness ==
    /\ pc = "returned"
    /\ configs = << << <<"k", " ", "=", " ", "v", "\n">>,
                       <<"[", "]", "\n">>,
                       <<"k", " ", "=", " ", "w", "\n">> >>,
                    << <<"k", " ", "=", " ", "w", "\n">>,
                       <<"[", "]", "\n">>,
                       <<"k", " ", "=", " ", "v", "\n">> >> >>
    /\ merged_cfg = (GLOBAL_STANZA :> (<<"k">> :> <<"w">>))
                    @@ (Name(<< >>) :> (<<"k">> :> <<"v">>))

\* the line without the newline at its end
Chomp(line) ==
    IF line # << >> /\ line[Len(line)] = "\n"
    THEN SubSeq(line, 1, Len(line) - 1)
    ELSE line

\* the number of backslashes at the end of the line
TrailingBackslashes(line) ==
    LET body == Chomp(line)
        n == Len(body)
    IN  CHOOSE c \in 0..n :
            /\ \A i \in (n - c + 1)..n : body[i] = "\\"
            /\ c < n => body[n - c] # "\\"

\* C19: a line that ends in a backslash no other backslash escapes (an odd
\* number of backslashes at its end) is joined with the line after it, a
\* newline in the place of the backslash; a line that ends in an escaped
\* backslash (an even number) is no continuation: it is a line of its own.
C19_ContinuationRule ==
    pc # "start" =>
        \A i \in 1..(Len(stream) - 1) :
            LET out == cont_handler(<<stream[i], stream[i + 1]>>)
                body == Chomp(stream[i])
                c == TrailingBackslashes(stream[i])
                joined == SubSeq(body, 1, Len(body) - 1) \o <<"\n">>
            IN  /\ c % 2 = 1
                    => /\ Len(out) = 1
                       /\ SubSeq(out[1], 1, Len(joined)) = joined
                /\ (c > 0 /\ c % 2 = 0)
                    => /\ Len(out) = 2
                       /\ out[1] = stream[i]

\* C20: the document parse_conf returns on a file without comments is the
\* document parse_conf returns on what write_conf writes for it, with sort
\* on or off.
C20_RoundTrip ==
    pc = "reparsed" => reparsed = parsed

----------------------------------------------------------------------------
\* Writing, the reference merge, drop and re-add, section splitting: the claims

\* the orders of the elements of a set
Perms(S) == {f \in [1..Cardinality(S) -> S] : \A x \in S : \E i \in DOMAIN f : f[i] = x}

C27_TwoLayerReference ==
    (TwoLayers /\ \A s \in DOMAIN args[2] : ~stanza_drops(args[2][s]))
        => LET A == args[1]
               B == args[2]
           IN  /\ DOMAIN Merged = DOMAIN A \cup DOMAIN B
               /\ \A s \in DOMAIN Merged :
                     IF s \in DOMAIN A /\ s \in DOMAIN B
                     THEN /\ DOMAIN Merged[s] = DOMAIN A[s] \cup DOMAIN B[s]
                          /\ \A k \in DOMAIN Merged[s] :
                                Merged[s][k] = IF k \in DOMAIN B[s] THEN B[s][k] ELSE A[s][k]
                     ELSE IF s \in DOMAIN B
                     THEN Merged[s] = B[s]
                     ELSE Merged[s] = A[s]

\* a stanza of both with a key of A only and a key of both with two values,
\* and a stanza of A only
C27_Witness ==
    /\ TwoLayers
    /\ \A s \in DOMAIN args[2] : ~stanza_drops(args[2][s])
    /\ GLOBAL_STANZA \in DOMAIN args[1] \ DOMAIN args[2]
    /\ \E s \in DOMAIN args[1] \cap DOMAIN args[2] :
          /\ \E k \in DOMAIN args[1][s] : k \notin DOMAIN args[2][s]
          /\ \E k \in DOMAIN args[1][s] \cap DOMAIN args[2][s] : args[1][s][k] # args[2][s][k]

\* A, B, C: a stanza S of A, with the drop marker in B, without it in C
DropThenReAdd(S) ==
    /\ pc = "returned"
    /\ Len(args) = 3
    /\ S \in DOMAIN args[1]
    /\ S \in DOMAIN args[2] /\ stanza_drops(args[2][S])
    /\ S \in DOMAIN args[3] /\ ~stanza_drops(args[3][S])

\* C28: when a stanza S is in A, has the drop marker in B and is in C without
\* it, S in merge_conf_dicts(A, B, C) is C's stanza, with no key of A's
\* stanza, also when B leaves the accumulator empty.
C28_DropThenReAdd ==
    \A S \in {Name(<<"s">>), GLOBAL_STANZA} :
        DropThenReAdd(S) => S \in DOMAIN Merged /\ Merged[S] = args[3][S]

\* B's drop empties the accumulator; A's stanza has a key that C's has not
C28_Witness ==
    /\ DropThenReAdd(Name(<<"s">>))
    /\ DOMAIN args[1] = {Name(<<"s">>)}
    /\ \E k \in DOMAIN args[1][Name(<<"s">>)] : k \notin DOMAIN args[3][Name(<<"s">>)]

\* C29: after a parse that returned, every header line of the file has made
\* its name a stanza of the document, also a header with no line under it
\* and the header of the empty name.
C29_EveryHeaderIsAStanza ==
    (pc = "parsed" /\ parsed.raised = None)
        => \A name \in HeaderNames(stream) : Name(name) \in DOMAIN parsed.sections

-----------------------------------------------------------------------------
\* Files on disk

SMART_CREATE == "created"
SMART_UPDATE == "updated"
SMART_NOCHANGE == "unchanged"

\* os.path.isfile(path)
isfile(fs_, path) == path \in DOMAIN fs_

\* open(path, "w"): the file is there and empty
open_w(fs_, path, now) == DictSet(fs_, path, [data |-> << >>, mtime |-> now])

\* the text written to the open file is on disk at the end of the with block
write_close(fs_, path, text, now) == DictSet(fs_, path, [data |-> text, mtime |-> now])

\* os.unlink(path)
unlink(fs_, path) == DictDel(fs_, path)

\* os.rename(src, dst): dst is the file src was, with its modification time
rename(fs_, src, dst) == DictDel(DictSet(fs_, dst, fs_[src]), src)

\* the size of the chunks fileobj_compare reads
buffsize == 8192

\* f.read(n) of a file at position pos
read(f, pos, n) == SubSeq(f, pos + 1, IF pos + n < Len(f) THEN pos + n ELSE Len(f))

RECURSIVE fileobj_compare_from(_, _, _)
fileobj_compare_from(f1, f2, pos) ==
    LET b1 == read(f1, pos, buffsize)
        b2 == read(f2, pos, buffsize)
    IN  IF b1 # b2 THEN FALSE
        ELSE IF b1 = << >> THEN TRUE
        ELSE fileobj_compare_from(f1, f2, pos + buffsize)

\* a comparison of the sizes only
fileobj_compare_sizes(f1, f2) == Len(f1) = Len(f2)

\* fileobj_compare(f1, f2): both files are read from their start
fileobj_compare(f1, f2) == fileobj_compare_from(f1, f2, 0)

\* temp_suffix of smart_write_conf
temp_suffix == <<".", "t", "m", "p">>

\* tempfile of smart_write_conf
tempfile(filename_) == filename_ \o temp_suffix

-----------------------------------------------------------------------------
\* smart_write_conf called on a path, one step for each call that reads or
\* changes the disk

SmartDocs ==
    {<< >>,
     GLOBAL_STANZA :> (<<"a">> :> <<"1">>),
     Name(<<"s">>) :> (<<"a">> :> <<"1">>),
     Name(<<"s">>) :> (<<"a">> :> <<"2">>),
     Name(<<"s">>) :> << >>,
     (Name(<<"s">>) :> (<<"a">> :> <<"1">>)) @@ (Name(<<"t">>) :> (<<"b">> :> <<"2">>))}

\* what a file may hold before the call: a document written earlier, or
\* text that write_conf does not write
Contents == {write_conf(d, TRUE, FALSE) : d \in SmartDocs} \cup {<<"a", "=", "1">>}

\* the disks before the call: the file may be there, and a file of the name
\* of the temporary file may be left from before
Disks ==
    {d @@ t :
        d \in {<< >>} \cup {<<"f">> :> [data |-> c, mtime |-> 0] : c \in Contents},
        t \in {<< >>, tempfile(<<"f">>) :> [data |-> <<"z">>, mtime |-> 0]}}

InitSmartWrite ==
    /\ filename = <<"f">>
    /\ smart_conf \in SmartDocs
    /\ fs \in Disks
    /\ fs0 = fs
    /\ clock = 0
    /\ temp = << >>
    /\ smart_rc = None
    /\ syscalls = << >>
    /\ MergeIdle
    /\ DiffIdle
    /\ ParseIdle
    /\ FilesIdle
    /\ PromoteIdle
    /\ MinimizeIdle
    /\ pc = "start"

\* os.path.isfile(filename), and for a file that is there write_conf to
\* temp and fileobj_compare(temp, dest)
smart_write_conf_compare ==
    /\ pc = "start"
    /\ IF isfile(fs, filename)
       THEN LET text == write_conf(smart_conf, TRUE, FALSE)
            IN  /\ temp' = text
                /\ IF fileobj_compare(text, fs[filename].data)
                   THEN smart_rc' = Some(SMART_NOCHANGE) /\ pc' = "returned"
                   ELSE smart_rc' = smart_rc /\ pc' = "update_open"
       ELSE /\ pc' = "create_open"
            /\ UNCHANGED <<temp, smart_rc>>
    /\ UNCHANGED <<merge_vars, diff_vars, parse_vars, files_vars, promote_vars,
                   minimize_vars,
                   fs, fs0, clock, filename, smart_conf, syscalls>>

\* open(tempfile, "w")
smart_write_conf_open ==
    /\ pc \in {"update_open", "create_open"}
    /\ clock' = clock + 1
    /\ fs' = open_w(fs, tempfile(filename), clock')
    /\ syscalls' = Append(syscalls, "open")
    /\ pc' = IF pc = "update_open" THEN "update_write" ELSE "create_write"
    /\ UNCHANGED <<merge_vars, diff_vars, parse_vars, files_vars, promote_vars,
                   minimize_vars,
                   fs0, filename, smart_conf, temp, smart_rc>>

\* dest.write(temp.getvalue()), or write_conf(dest, smart_conf, ...), and the end
\* of the with block
smart_write_conf_write ==
    /\ pc \in {"update_write", "create_write"}
    /\ clock' = clock + 1
    /\ fs' = write_close(fs, tempfile(filename),
                         IF pc = "update_write" THEN temp
                         ELSE write_conf(smart_conf, TRUE, FALSE), clock')
    /\ syscalls' = Append(syscalls, "write")
    /\ pc' = IF pc = "update_write" THEN "update_unlink" ELSE "create_rename"
    /\ UNCHANGED <<merge_vars, diff_vars, parse_vars, files_vars, promote_vars,
                   minimize_vars,
                   fs0, filename, smart_conf, temp, smart_rc>>

\* os.unlink(filename)
smart_write_conf_unlink ==
    /\ pc = "update_unlink"
    /\ fs' = unlink(fs, filename)
    /\ syscalls' = Append(syscalls, "unlink")
    /\ pc' = "update_rename"
    /\ UNCHANGED <<merge_vars, diff_vars, parse_vars, files_vars, promote_vars,
                   minimize_vars,
                   fs0, clock, filename, smart_conf, temp, smart_rc>>

\* os.rename(tempfile, filename) and the return
smart_write_conf_rename ==
    /\ pc \in {"update_rename", "create_rename"}
    /\ fs' = rename(fs, tempfile(filename), filename)
    /\ syscalls' = Append(syscalls, "rename")
    /\ smart_rc' = Some(IF pc = "update_rename" THEN SMART_UPDATE ELSE SMART_CREATE)
    /\ pc' = "returned"
    /\ UNCHANGED <<merge_vars, diff_vars, parse_vars, files_vars, promote_vars,
                   minimize_vars,
                   fs0, clock, filename, smart_conf, temp>>

NextSmartWrite ==
    \/ smart_write_conf_compare
    \/ smart_write_conf_open
    \/ smart_write_conf_write
    \/ smart_write_conf_unlink
    \/ smart_write_conf_rename

SpecSmartWrite == InitSmartWrite /\ [][NextSmartWrite]_vars

\* C22: smart_write_conf returns "created" when the path did not exist,
\* "unchanged" when the bytes of the file equal the serialized document, and
\* then nothing was written and no temporary file was made, and "updated"
\* when the file was there with other bytes; after "created" and "updated"
\* the path holds the serialized document and the temporary file is gone.
C22_SmartWriteOutcome ==
    pc = "returned" =>
        LET text == write_conf(smart_conf, TRUE, FALSE)
            rc == smart_rc[1]
        IN  /\ smart_rc # None
            /\ rc = SMART_CREATE <=> filename \notin DOMAIN fs0
            /\ rc = SMART_NOCHANGE <=>
                   filename \in DOMAIN fs0 /\ fs0[filename].data = text
            /\ rc = SMART_UPDATE <=>
                   filename \in DOMAIN fs0 /\ fs0[filename].data # text
            /\ rc = SMART_NOCHANGE => fs = fs0 /\ syscalls = << >>
            /\ rc \in {SMART_CREATE, SMART_UPDATE} =>
                   /\ filename \in DOMAIN fs
                   /\ fs[filename].data = text
                   /\ tempfile(filename) \notin DOMAIN fs

\* a file with other bytes of the same length was there and the call returned
C22_Witness ==
    /\ pc = "returned"
    /\ filename \in DOMAIN fs0
    /\ fs0[filename].data # write_conf(smart_conf, TRUE, FALSE)
    /\ Len(fs0[filename].data) = Len(write_conf(smart_conf, TRUE, FALSE))
    /\ smart_rc = Some(SMART_UPDATE)

\* C23: while smart_write_conf replaces a file that is there with other
\* bytes, the path holds at every moment the old bytes or the new ones.
C23_OldOrNewAtAnyMoment ==
    (filename \in DOMAIN fs0 /\ fs0[filename].data # write_conf(smart_conf, TRUE, FALSE)) =>
        /\ filename \in DOMAIN fs
        /\ fs[filename].data \in {fs0[filename].data, write_conf(smart_conf, TRUE, FALSE)}

-----------------------------------------------------------------------------
\* Promotion

EXIT_CODE_NOTHING_TO_DO == 1
EXIT_CODE_USER_QUIT == 2
EXIT_CODE_FAILED_SAFETY_CHECK == 22
EXIT_CODE_EXTERNAL_FILE_EDIT == 50

\* os.path.basename(path)
basename(path) ==
    LET slashes == {i \in DOMAIN path : path[i] = "/"}
        last == IF slashes = {} THEN 0 ELSE CHOOSE i \in slashes : \A j \in slashes : j <= i
    IN  SubSeq(path, last + 1, Len(path))

\* file_fingerprint(path): (stat.st_mtime, stat.st_size)
file_fingerprint(fs_, path) == <<fs_[path].mtime, Len(fs_[path].data)>>

\* merge_conf_dicts(*vs) of documents no other name refers to
merge_docs(vs) ==
    LET new == NewDocs(EmptyMem, << >>, vs, FALSE)
        r == merge_conf_dicts(new.mem, new.refs)
    IN  Val(r.mem, r.ref)

\* the disk after smart_write_conf(filename, conf), all its steps taken
smart_write_conf(fs_, filename_, conf_, now) ==
    LET text == write_conf(conf_, TRUE, FALSE)
        tmp == tempfile(filename_)
        staged == write_close(open_w(fs_, tmp, now), tmp, text, now)
    IN  IF isfile(fs_, filename_)
        THEN IF fileobj_compare(text, fs_[filename_].data)
             THEN fs_
             ELSE rename(unlink(staged, filename_), tmp, filename_)
        ELSE rename(staged, tmp, filename_)

\* the most changes another process makes to the files during a promotion
MaxEdits == 1

\* the source files and the target files of a promotion
PromoteSources ==
    {g @@ sd :
        g \in {<< >>, GLOBAL_STANZA :> (<<"a">> :> <<"1">>)},
        sd \in {<< >>} \cup
               {Name(<<"s">>) :> x :
                   x \in {<<"a">> :> <<"1">>,
                          (<<"a">> :> <<"2">>) @@ (<<"b">> :> <<"1">>)}}}

PromoteTargets ==
    {g @@ sd :
        g \in {<< >>, GLOBAL_STANZA :> (<<"a">> :> <<"2">>)},
        sd \in {<< >>} \cup
               {Name(<<"s">>) :> x :
                   x \in {<<"a">> :> <<"1">>,
                          <<"b">> :> <<"2">>,
                          (<<"a">> :> <<"2">>) @@ (<<"b">> :> <<"2">>)}}}

\* args of do_promote: two paths of one basename, or of two
PromoteArgs ==
    [source : {<<"l", "/", "f">>},
     target : {<<"d", "/", "f">>, <<"d", "/", "g">>},
     mode : {"ask", "batch", "interactive"},
     keep : BOOLEAN,
     keep_empty : BOOLEAN,
     force : BOOLEAN]

\* parse_args of do_promote, with the defaults of the command line
PromoteParseArgs ==
    [keys_lower |-> FALSE, handle_conts |-> TRUE, strict |-> TRUE,
     dup_stanza |-> DUP_EXCEPTION, dup_key |-> DUP_EXCEPTION]

\* what another process writes to a file
EditText == write_conf(Name(<<"s">>) :> (<<"z">> :> <<"z">>), TRUE, FALSE)

InitPromote ==
    /\ promote_args \in PromoteArgs
    /\ (promote_args.target # <<"d", "/", "f">> => ~promote_args.keep_empty)
    /\ \E src \in PromoteSources, tgt \in PromoteTargets :
          fs = (promote_args.source :> [data |-> write_conf(src, TRUE, FALSE), mtime |-> 0])
               @@ (promote_args.target :> [data |-> write_conf(tgt, TRUE, FALSE), mtime |-> 0])
    /\ fs0 = fs
    /\ clock = 0
    /\ syscalls = << >>
    /\ filename = << >>
    /\ smart_conf = << >>
    /\ temp = << >>
    /\ smart_rc = << >>
    /\ fp_source = << >>
    /\ fp_target = << >>
    /\ cfg_src = << >>
    /\ cfg_tgt = << >>
    /\ diff = << >>
    /\ op_i = 0
    /\ out_src = << >>
    /\ out_cfg = << >>
    /\ accepted = << >>
    /\ cfg_final_src = << >>
    /\ cfg_final_tgt = << >>
    /\ exit_code = None
    /\ edits = << >>
    /\ MergeIdle
    /\ DiffIdle
    /\ ParseIdle
    /\ FilesIdle
    /\ MinimizeIdle
    /\ pc = "start"

\* the two fingerprints and the check of the basenames
do_promote_fingerprint ==
    /\ pc = "start"
    /\ fp_source' = file_fingerprint(fs, promote_args.source)
    /\ fp_target' = file_fingerprint(fs, promote_args.target)
    /\ IF basename(promote_args.source) # basename(promote_args.target)
          /\ ~promote_args.force
       THEN exit_code' = Some(EXIT_CODE_FAILED_SAFETY_CHECK) /\ pc' = "returned"
       ELSE exit_code' = exit_code /\ pc' = "parse"
    /\ UNCHANGED <<merge_vars, diff_vars, parse_vars, files_vars, disk_vars, minimize_vars,
                   promote_args, cfg_src, cfg_tgt, diff, op_i, out_src, out_cfg,
                   accepted, cfg_final_src, cfg_final_tgt, edits>>

\* parse_conf of the two files and the check that the source has settings
do_promote_parse ==
    /\ pc = "parse"
    /\ LET src == parse_conf(readlines(fs[promote_args.source].data), PromoteParseArgs)
           tgt == parse_conf(readlines(fs[promote_args.target].data), PromoteParseArgs)
       IN  IF src.raised # None \/ tgt.raised # None
           THEN pc' = "raised" /\ UNCHANGED <<cfg_src, cfg_tgt, exit_code>>
           ELSE /\ cfg_src' = src.sections
                /\ cfg_tgt' = tgt.sections
                /\ IF src.sections = << >>
                   THEN exit_code' = Some(EXIT_CODE_NOTHING_TO_DO) /\ pc' = "returned"
                   ELSE /\ exit_code' = exit_code
                        /\ pc' = IF promote_args.mode = "ask" THEN "ask" ELSE "promote"
    /\ UNCHANGED <<merge_vars, diff_vars, parse_vars, files_vars, disk_vars, minimize_vars,
                   promote_args, fp_source, fp_target, diff, op_i, out_src, out_cfg,
                   accepted, cfg_final_src, cfg_final_tgt, edits>>

\* one answer to "Would you like to apply changes?  (y/n/d/q)"
do_promote_ask ==
    /\ pc = "ask"
    /\ \E input \in {"q", "d", "y", "n"} :
          /\ exit_code' = IF input = "q" THEN Some(EXIT_CODE_USER_QUIT) ELSE exit_code
          /\ promote_args' =
                 IF input = "y" THEN [promote_args EXCEPT !.mode = "batch"]
                 ELSE IF input = "n" THEN [promote_args EXCEPT !.mode = "interactive"]
                 ELSE promote_args
          /\ pc' = IF input = "q" THEN "returned"
                   ELSE IF input = "d" THEN "ask" ELSE "promote"
    /\ UNCHANGED <<merge_vars, diff_vars, parse_vars, files_vars, disk_vars, minimize_vars,
                   fp_source, fp_target, cfg_src, cfg_tgt, diff, op_i, out_src,
                   out_cfg, accepted, cfg_final_src, cfg_final_tgt, edits>>

_do_promote_automatic ==
    /\ pc = "promote"
    /\ promote_args.mode # "interactive"
    /\ cfg_final_src' = << >>
    /\ cfg_final_tgt' = merge_docs(<<cfg_tgt, cfg_src>>)
    /\ pc' = "check"
    /\ UNCHANGED <<merge_vars, diff_vars, parse_vars, files_vars, disk_vars, minimize_vars,
                   promote_args, fp_source, fp_target, cfg_src, cfg_tgt, diff, op_i,
                   out_src, out_cfg, accepted, exit_code, edits>>

\* _do_promote_interactive up to its loop
_do_promote_interactive_start ==
    /\ pc = "promote"
    /\ promote_args.mode = "interactive"
    /\ out_src' = cfg_src
    /\ out_cfg' = cfg_tgt
    /\ diff' = compare_cfgs(cfg_tgt, cfg_src, FALSE)
    /\ op_i' = 1
    /\ pc' = "op"
    /\ UNCHANGED <<merge_vars, diff_vars, parse_vars, files_vars, disk_vars, minimize_vars,
                   promote_args, fp_source, fp_target, cfg_src, cfg_tgt, accepted,
                   cfg_final_src, cfg_final_tgt, exit_code, edits>>

\* one turn of the loop of _do_promote_interactive, with the answer to its
\* prompt; a del or an assignment to a missing stanza is a KeyError
_do_promote_interactive_op ==
    /\ pc = "op"
    /\ op_i <= Len(diff)
    /\ \E answer \in BOOLEAN :
          LET op == diff[op_i]
              stanza == op.location.stanza
              whole == op.location.type = "stanza"
              in_src == /\ stanza \in DOMAIN out_src
                        /\ whole \/ op.location.key \in DOMAIN out_src[stanza]
              left == DictDel(out_src[stanza], op.location.key)
          IN  IF op.tag = DIFF_OP_DELETE \/ ~answer
              THEN /\ ~answer
                   /\ op_i' = op_i + 1
                   /\ UNCHANGED <<out_src, out_cfg, accepted, pc>>
              ELSE IF ~in_src \/ (op.tag # DIFF_OP_EQUAL /\ ~whole
                                  /\ stanza \notin DOMAIN out_cfg)
              THEN pc' = "raised" /\ UNCHANGED <<out_src, out_cfg, accepted, op_i>>
              ELSE /\ accepted' = Append(accepted, op)
                   /\ op_i' = op_i + 1
                   /\ pc' = pc
                   /\ IF op.tag = DIFF_OP_EQUAL
                      THEN /\ out_cfg' = out_cfg
                           /\ out_src' = IF whole THEN DictDel(out_src, stanza)
                                         ELSE DictSet(out_src, stanza, left)
                      ELSE IF whole
                      THEN /\ out_cfg' = DictSet(out_cfg, stanza, op.a[1])
                           /\ out_src' = DictDel(out_src, stanza)
                      ELSE /\ out_cfg' = DictSet(out_cfg, stanza,
                                                 DictSet(out_cfg[stanza], op.location.key,
                                                         op.a[1]))
                           /\ out_src' = IF left = << >> THEN DictDel(out_src, stanza)
                                         ELSE DictSet(out_src, stanza, left)
    /\ UNCHANGED <<merge_vars, diff_vars, parse_vars, files_vars, disk_vars, minimize_vars,
                   promote_args, fp_source, fp_target, cfg_src, cfg_tgt, diff,
                   cfg_final_src, cfg_final_tgt, exit_code, edits>>

\* return (out_src, out_cfg)
_do_promote_interactive_return ==
    /\ pc = "op"
    /\ op_i > Len(diff)
    /\ cfg_final_src' = out_src
    /\ cfg_final_tgt' = out_cfg
    /\ pc' = "check"
    /\ UNCHANGED <<merge_vars, diff_vars, parse_vars, files_vars, disk_vars, minimize_vars,
                   promote_args, fp_source, fp_target, cfg_src, cfg_tgt, diff, op_i,
                   out_src, out_cfg, accepted, exit_code, edits>>

\* the two file_fingerprint(path, fp) before the files are written
do_promote_check ==
    /\ pc = "check"
    /\ IF \/ file_fingerprint(fs, promote_args.source) # fp_source
          \/ file_fingerprint(fs, promote_args.target) # fp_target
       THEN exit_code' = Some(EXIT_CODE_EXTERNAL_FILE_EDIT) /\ pc' = "returned"
       ELSE exit_code' = exit_code /\ pc' = "write_target"
    /\ UNCHANGED <<merge_vars, diff_vars, parse_vars, files_vars, disk_vars, minimize_vars,
                   promote_args, fp_source, fp_target, cfg_src, cfg_tgt, diff, op_i,
                   out_src, out_cfg, accepted, cfg_final_src, cfg_final_tgt, edits>>

\* smart_write_conf(args.target, cfg_final_tgt)
do_promote_write_target ==
    /\ pc = "write_target"
    /\ clock' = clock + 1
    /\ fs' = smart_write_conf(fs, promote_args.target, cfg_final_tgt, clock')
    /\ syscalls' = IF fs' = fs THEN syscalls ELSE Append(syscalls, "target")
    /\ IF promote_args.keep
       THEN exit_code' = None /\ pc' = "returned"
       ELSE exit_code' = exit_code /\ pc' = "write_source"
    /\ UNCHANGED <<merge_vars, diff_vars, parse_vars, files_vars, minimize_vars,
                   fs0, filename, smart_conf, temp, smart_rc,
                   promote_args, fp_source, fp_target, cfg_src, cfg_tgt, diff, op_i,
                   out_src, out_cfg, accepted, cfg_final_src, cfg_final_tgt, edits>>

\* what is left of the source is written, or the source is removed
do_promote_write_source ==
    /\ pc = "write_source"
    /\ clock' = clock + 1
    /\ fs' = IF cfg_final_src # << >>
             THEN smart_write_conf(fs, promote_args.source, cfg_final_src, clock')
             ELSE IF promote_args.keep_empty
             THEN write_close(fs, promote_args.source,
                              write_conf(cfg_final_src, TRUE, FALSE), clock')
             ELSE unlink(fs, promote_args.source)
    /\ syscalls' = IF fs' = fs THEN syscalls ELSE Append(syscalls, "source")
    /\ exit_code' = None
    /\ pc' = "returned"
    /\ UNCHANGED <<merge_vars, diff_vars, parse_vars, files_vars, minimize_vars,
                   fs0, filename, smart_conf, temp, smart_rc,
                   promote_args, fp_source, fp_target, cfg_src, cfg_tgt, diff, op_i,
                   out_src, out_cfg, accepted, cfg_final_src, cfg_final_tgt, edits>>

\* another process writes one of the two files while the promotion runs
ExternalEdit ==
    /\ pc \notin {"start", "returned", "raised"}
    /\ Len(edits) < MaxEdits
    /\ \E path \in {promote_args.source, promote_args.target} :
          /\ path \in DOMAIN fs
          /\ clock' = clock + 1
          /\ fs' = write_close(fs, path, EditText, clock')
          /\ edits' = Append(edits, [path |-> path, at |-> pc, syscalls |-> syscalls])
    /\ UNCHANGED <<merge_vars, diff_vars, parse_vars, files_vars, minimize_vars,
                   fs0, filename, smart_conf, temp, smart_rc, syscalls,
                   promote_args, fp_source, fp_target, cfg_src, cfg_tgt, diff, op_i,
                   out_src, out_cfg, accepted, cfg_final_src, cfg_final_tgt,
                   exit_code, pc>>

NextPromote ==
    \/ do_promote_fingerprint
    \/ do_promote_parse
    \/ do_promote_ask
    \/ _do_promote_automatic
    \/ _do_promote_interactive_start
    \/ _do_promote_interactive_op
    \/ _do_promote_interactive_return
    \/ do_promote_check
    \/ do_promote_write_target
    \/ do_promote_write_source
    \/ ExternalEdit

SpecPromote == InitPromote /\ [][NextPromote]_vars

\* _do_promote_interactive has made out_src and out_cfg
InteractiveRan ==
    \/ pc = "op"
    \/ /\ promote_args.mode = "interactive"
       /\ \/ pc \in {"check", "write_target", "write_source"}
          \/ /\ pc = "returned"
             /\ exit_code = None \/ exit_code = Some(EXIT_CODE_EXTERNAL_FILE_EDIT)

\* the document has the key in the stanza with the value
Holds(doc, stanza, key, value) ==
    stanza \in DOMAIN doc /\ key \in DOMAIN doc[stanza] /\ doc[stanza][key] = value

\* C24: whatever the answers, every (stanza, key, value) of the source is
\* in the output source or, with that value, in the output target; after yes
\* to a replace op the output target holds the source's value at that place.
C24_PromotionLosesNothing ==
    InteractiveRan =>
        /\ \A stanza \in DOMAIN cfg_src : \A key \in DOMAIN cfg_src[stanza] :
              \/ Holds(out_src, stanza, key, cfg_src[stanza][key])
              \/ Holds(out_cfg, stanza, key, cfg_src[stanza][key])
        /\ \A i \in DOMAIN accepted :
              LET op == accepted[i]
              IN  op.tag = DIFF_OP_REPLACE =>
                  /\ op.location.stanza \in DOMAIN out_cfg
                  /\ IF op.location.type = "stanza"
                     THEN out_cfg[op.location.stanza] = cfg_src[op.location.stanza]
                     ELSE Holds(out_cfg, op.location.stanza, op.location.key,
                                cfg_src[op.location.stanza][op.location.key])

\* C25: once another process has modified the source or the target during a
\* promotion, the promotion changes no file, and the modified file keeps what
\* that process wrote: the modification is not overwritten and not deleted.
C25_ExternalEditSurvives ==
    \A i \in DOMAIN edits :
        /\ syscalls = edits[i].syscalls
        /\ edits[i].path \in DOMAIN fs
        /\ fs[edits[i].path].data = EditText

-----------------------------------------------------------------------------
\* Minimizing

\* _is_glob_re.search(pattern)
is_glob(pattern) ==
    \/ \E i \in DOMAIN pattern : pattern[i] \in {"*", "?"}
    \/ \E i \in 1..(Len(pattern) - 2) : SubSeq(pattern, i, i + 2) = <<".", ".", ".">>

\* re.match of the regex made from the glob pattern, from place i of the
\* pattern and place j of the value: "*" is [^/\\]*, "?" is ".", "..." is ".*"
RECURSIVE glob_match_from(_, _, _, _)
glob_match_from(pattern, i, value, j) ==
    IF i > Len(pattern) THEN TRUE
    ELSE IF i + 2 <= Len(pattern) /\ SubSeq(pattern, i, i + 2) = <<".", ".", ".">>
    THEN \E e \in j..(Len(value) + 1) :
            /\ \A x \in j..(e - 1) : value[x] # "\n"
            /\ glob_match_from(pattern, i + 3, value, e)
    ELSE IF pattern[i] = "*"
    THEN \E e \in j..(Len(value) + 1) :
            /\ \A x \in j..(e - 1) : value[x] \notin {"/", "\\"}
            /\ glob_match_from(pattern, i + 1, value, e)
    ELSE IF pattern[i] = "?"
    THEN j <= Len(value) /\ value[j] # "\n" /\ glob_match_from(pattern, i + 1, value, j + 1)
    ELSE j <= Len(value) /\ value[j] = pattern[i]
         /\ glob_match_from(pattern, i + 1, value, j + 1)

\* a preserve list that matches every key
match_bwlist_any(value, bwlist) == TRUE

\* match_bwlist(value, bwlist)
match_bwlist(value, bwlist) ==
    \/ \E i \in DOMAIN bwlist : bwlist[i] = value
    \/ \E i \in DOMAIN bwlist :
          is_glob(bwlist[i]) /\ glob_match_from(bwlist[i], 1, value, 1)

\* the default files and the local file of a minimize
MinimizeDocs ==
    {g @@ sd :
        g \in {<< >>, GLOBAL_STANZA :> (<<"a">> :> <<"1">>)},
        sd \in {<< >>} \cup
               {Name(<<"s">>) :> x :
                   x \in {<< >>,
                          <<"a">> :> <<"1">>,
                          <<"a">> :> <<"2">>,
                          <<"b">> :> <<"2">>,
                          (<<"a">> :> <<"1">>) @@ (<<"b">> :> <<"1">>),
                          (<<"a">> :> <<"1">>) @@ (<<"b">> :> <<"2">>)}}}

\* a second default file, over the first
MinimizeLayers == {<< >>, Name(<<"s">>) :> (<<"b">> :> <<"1">>)}

\* args.preserve_key: no key, the key a, every key of one character, every
\* key that starts with b
PreserveLists == {<< >>, <<(<<"a">>)>>, <<(<<"?">>)>>, <<(<<"b", "*">>)>>}

\* parse_args of do_minimize, with the defaults of the command line; the
\* files have no comment
MinimizeParseArgs ==
    [keys_lower |-> FALSE, handle_conts |-> TRUE, strict |-> TRUE,
     dup_stanza |-> DUP_EXCEPTION, dup_key |-> DUP_EXCEPTION]

InitMinimize ==
    /\ \E first \in MinimizeDocs, second \in MinimizeLayers, local \in MinimizeDocs :
          fs = (<<"d", "1">> :> [data |-> write_conf(first, TRUE, FALSE), mtime |-> 0])
               @@ (<<"d", "2">> :> [data |-> write_conf(second, TRUE, FALSE), mtime |-> 0])
               @@ (<<"l">> :> [data |-> write_conf(local, TRUE, FALSE), mtime |-> 0])
    /\ minimize_args \in
           [conf : {<<(<<"d", "1">>)>>, <<(<<"d", "1">>), (<<"d", "2">>)>>},
            target : {<<"l">>},
            output : BOOLEAN,
            preserve_key : PreserveLists]
    /\ fs0 = fs
    /\ clock = 0
    /\ syscalls = << >>
    /\ filename = << >>
    /\ smart_conf = << >>
    /\ temp = << >>
    /\ smart_rc = << >>
    /\ default_cfg = << >>
    /\ local_cfg = << >>
    /\ minz_cfg = << >>
    /\ diffs = << >>
    /\ diffs_i = 0
    /\ MergeIdle
    /\ DiffIdle
    /\ ParseIdle
    /\ FilesIdle
    /\ PromoteIdle
    /\ pc = "start"

\* do_minimize up to its loop: the files are parsed, the default ones merged
do_minimize_parse ==
    /\ pc = "start"
    /\ LET confs == [i \in DOMAIN minimize_args.conf |->
                        parse_conf(readlines(fs[minimize_args.conf[i]].data),
                                   MinimizeParseArgs)]
           local == parse_conf(readlines(fs[minimize_args.target].data), MinimizeParseArgs)
       IN  IF local.raised # None \/ \E i \in DOMAIN confs : confs[i].raised # None
           THEN /\ pc' = "raised"
                /\ UNCHANGED <<default_cfg, local_cfg, minz_cfg, diffs, diffs_i>>
           ELSE /\ default_cfg' = merge_docs([i \in DOMAIN confs |-> confs[i].sections])
                /\ local_cfg' = local.sections
                /\ minz_cfg' = local.sections
                /\ diffs' = compare_cfgs(default_cfg', local_cfg', FALSE)
                /\ diffs_i' = 1
                /\ pc' = "op"
    /\ UNCHANGED <<merge_vars, diff_vars, parse_vars, files_vars, disk_vars,
                   promote_vars, minimize_args>>

\* one turn of the loop of do_minimize; minz_cfg = dict(local_cfg) has the
\* stanza objects of local_cfg, so a key deleted there is deleted in both
do_minimize_op ==
    /\ pc = "op"
    /\ diffs_i <= Len(diffs)
    /\ LET op == diffs[diffs_i]
           stanza == op.location.stanza
       IN  IF op.tag # DIFF_OP_EQUAL
           THEN UNCHANGED <<minz_cfg, local_cfg>>
           ELSE IF op.location.type = "stanza"
           THEN minz_cfg' = DictDel(minz_cfg, stanza) /\ local_cfg' = local_cfg
           ELSE IF match_bwlist(op.location.key, minimize_args.preserve_key)
           THEN UNCHANGED <<minz_cfg, local_cfg>>
           ELSE LET left == DictDel(minz_cfg[stanza], op.location.key)
                IN  /\ minz_cfg' = IF left = << >> THEN DictDel(minz_cfg, stanza)
                                   ELSE DictSet(minz_cfg, stanza, left)
                    /\ local_cfg' = DictSet(local_cfg, stanza, left)
    /\ diffs_i' = diffs_i + 1
    /\ UNCHANGED <<merge_vars, diff_vars, parse_vars, files_vars, disk_vars,
                   promote_vars, minimize_args, default_cfg, diffs, pc>>

\* write_conf(args.output, minz_cfg), or smart_write_conf(args.target, minz_cfg)
do_minimize_write ==
    /\ pc = "op"
    /\ diffs_i > Len(diffs)
    /\ IF minimize_args.output
       THEN /\ written' = write_conf(minz_cfg, TRUE, FALSE)
            /\ UNCHANGED <<fs, clock, syscalls>>
       ELSE /\ clock' = clock + 1
            /\ fs' = smart_write_conf(fs, minimize_args.target, minz_cfg, clock')
            /\ syscalls' = IF fs' = fs THEN syscalls ELSE Append(syscalls, "target")
            /\ written' = written
    /\ pc' = "returned"
    /\ UNCHANGED <<merge_vars, diff_vars, files_vars, promote_vars, minimize_vars,
                   stream, parse_args, parsed, sort, reparsed,
                   fs0, filename, smart_conf, temp, smart_rc>>

NextMinimize == do_minimize_parse \/ do_minimize_op \/ do_minimize_write

SpecMinimize == InitMinimize /\ [][NextMinimize]_vars

\* the document of the local file as it was when do_minimize was called
LocalFile == parse_conf(readlines(fs0[minimize_args.target].data), MinimizeParseArgs).sections

\* the minimized output, parsed
MinimizedOutput ==
    parse_conf(readlines(IF minimize_args.output THEN written
                         ELSE fs[minimize_args.target].data),
               MinimizeParseArgs).sections

\* C26: every key of the local file that the preserve list matches is in the
\* minimized output with its value, also when the default configuration has
\* the same value for it or the same whole stanza.
C26_PreservedKeysStay ==
    pc = "returned" =>
        \A stanza \in DOMAIN LocalFile : \A key \in DOMAIN LocalFile[stanza] :
            match_bwlist(key, minimize_args.preserve_key) =>
                Holds(MinimizedOutput, stanza, key, LocalFile[stanza][key])

\* C30: with an empty preserve list, the default configuration D merged with
\* the minimized document M equals D merged with the local document L, and
\* no key of M has the value D has for it in the same stanza.
C30_MinimizeKeepsEffective ==
    (pc = "returned" /\ minimize_args.preserve_key = << >>) =>
        /\ merge_docs(<<default_cfg, minz_cfg>>) = merge_docs(<<default_cfg, LocalFile>>)
        /\ \A stanza \in DOMAIN minz_cfg : \A key \in DOMAIN minz_cfg[stanza] :
              ~Holds(default_cfg, stanza, key, minz_cfg[stanza][key])

\* a key of the local file with the default's value was removed and one with
\* another value was kept
C30_Witness ==
    /\ pc = "returned"
    /\ minimize_args.preserve_key = << >>
    /\ default_cfg = Name(<<"s">>) :> ((<<"a">> :> <<"1">>) @@ (<<"b">> :> <<"1">>))
    /\ LocalFile = Name(<<"s">>) :> ((<<"a">> :> <<"1">>) @@ (<<"b">> :> <<"2">>))
    /\ minz_cfg = Name(<<"s">>) :> (<<"b">> :> <<"2">>)
====
